---- MODULE Spec2Model ----
(***************************************************************************)
(* A model of the goin-buck cognitive memory engine: the bounded working   *)
(* memory (LRUWorkingMemory), the emotional state (SupabaseEmotionalMemory *)
(* and EmotionalService), the long-term pattern store                      *)
(* (SupabaseLongTermMemory) and the sleep timer of CognitiveSystem.        *)
(*                                                                         *)
(* Numbers.  JavaScript numbers are modelled as fixed-point integers in    *)
(* units of 1/Scale: the weight 0.5 is 500.  A product or a quotient is    *)
(* rounded towards zero to a multiple of 1/Scale where a double is rounded *)
(* to the nearest double; x / x = 1 and x / 1 = x hold in both.            *)
(*                                                                         *)
(* Objects.  Facts are JavaScript objects held by reference: the buffer,   *)
(* the id index and every caller's snapshot share one object, and an       *)
(* assignment to fact.weight is seen through all of them.  The heap maps a *)
(* reference to its object; an object that neither the memory nor a call   *)
(* in progress refers to any more is dropped from it, since passing such   *)
(* an object again is the same as passing a new object with its fields.    *)
(***************************************************************************)
EXTENDS Integers, Sequences, FiniteSets, TLC

\* ------------------------------------------------------------------ bounds
\* The fixed-point unit: 1.0 is Scale.
Scale == 1000
\* Capacities 0..MaxCapacity are tried for the working memory.
MaxCapacity == 2
\* Fact objects alive at a time: enough to fill the buffer and evict once.
MaxRefs == MaxCapacity + 1
\* hits + misses of the working-memory metrics are counted up to this.
MaxWmOps == MaxCapacity + 1
\* getSampleByWeight is called with 0..MaxSample.
MaxSample == MaxCapacity
\* The largest weight consolidate() is still applied to (the model's integers
\* are 32 bits wide, a double is not).
WeightCeiling == 2000000
\* Calls made to the emotional memory and the emotional service together.
MaxEmoCalls == 3
\* Calls made to the long-term memory.
MaxLtmCalls == 3
\* PatternService calls made, and the facts a similarity search returns at most.
MaxPatCalls == 3
MaxSimilar == 2
\* synthesizeInsights calls made.
MaxInsightCalls == 2
\* The clock runs from 0 to MaxTime, in units of 30 days.
MaxTime == 2
\* setInterval calls made, and executions of processSleepCycle started.
MaxTimers == 2
MaxRuns == 2

\* --------------------------------------------------------------- variables
VARIABLES
    heap,        \* ref -> fact object [id, weight, emotionalImpact], NoFact when free
    facts,       \* factBuffer.facts: Seq of refs, oldest first
    factMap,     \* factMap: id -> ref, NoRef when the id has no entry
    metrics,     \* [hits, misses, evictions]
    wmCapacity,  \* factBuffer.maxSize, as given to the constructor
    wmStrategy,  \* evictionStrategy: "lru" or "weight"
    wmLast,      \* the last completed working-memory call and what it returned
    wmHist,      \* the facts passed to addFact since construction (ref and
                 \* weight), while no other mutating call has been made
    emState,     \* SupabaseEmotionalMemory.currentState
    emRow,       \* the row of emotional_states inserted last: <<>> or <<row>>
    svcState,    \* EmotionalService.currentState: [quadrant, intensity]
    svcRow,      \* the state update_emotional_state stored last: <<>> or <<row>>
    svcCalls,    \* the processFact calls that reached their await of the store
                 \* since the service last had none there, in the order of
                 \* their start: [previous, impact, newState, outcome], the
                 \* outcome "awaiting" while the call is suspended
    emoLast,     \* the last emotional call and how it ended
    emoCalls,    \* emotional calls made so far
    emExpected,  \* the updateState calls issued so far, applied one after
                 \* another in the order of their issue (a record kept beside
                 \* the program)
    patterns,    \* SupabaseLongTermMemory.patterns: a Map from id to pattern
    initialized, \* SupabaseLongTermMemory.initialized
    dbPatterns,  \* the rows of the patterns table, by id
    now,         \* Date.now(), in units of 30 days
    ltmLast,     \* the last long-term-memory call and how it ended
    ltmCalls,    \* long-term-memory calls made so far
    ltmReturned, \* the ids of the patterns the last completed
                 \* findSimilarPatterns returned to a caller of the memory
    sleepCycle,  \* CognitiveSystem.sleepCycle: a timer handle or NoTimer (null)
    timers,      \* the interval timers scheduled and not cleared
    timersMade,  \* setInterval calls made so far (the handles given out)
    sleepRuns,   \* the executions of processSleepCycle suspended at an await
    runsStarted, \* executions of processSleepCycle started so far
    ingestions,  \* the processTextInput calls suspended at await updateState
    ltmPending,  \* the long-term-memory calls suspended at an await on the
                 \* database: [op, ids, rows], first suspended first
    pendingAdds, \* the addFact calls suspended at the await of their eviction:
                 \* the fact objects they go on to add, first suspended first
    activePatterns, \* PatternService.activePatterns: a Map from id to pattern,
                 \* the ids in the order of their insertion
    patLast,     \* the last PatternService call, how it ended, and the
                 \* patterns it returned
    patCalls,    \* PatternService calls made so far
    dbFacts,     \* the facts table of the database: a Map from the id of a
                 \* row to the fact stored
    processedInsights, \* InsightService.processedInsights: the normalized
                 \* contents seen
    insightMemory, \* the facts held by the working memory of the
                 \* InsightService, in the order of their storing
    insLast      \* the last InsightService call, how it ended, and the
                 \* insights it returned

wmVars == <<heap, facts, factMap, metrics, wmCapacity, wmStrategy, wmLast, wmHist,
           pendingAdds>>
emoVars == <<emState, emRow, svcState, svcRow, svcCalls, emoLast, emoCalls, emExpected>>
ltmVars == <<patterns, initialized, dbPatterns, now, ltmLast, ltmCalls, ltmPending,
            ltmReturned>>
sleepVars == <<sleepCycle, timers, timersMade, sleepRuns, runsStarted, ingestions>>

insightVars == <<dbFacts, processedInsights, insightMemory, insLast>>

serviceVars == <<activePatterns, patLast, patCalls, insightVars>>

vars == <<wmVars, emoVars, ltmVars, sleepVars, serviceVars>>

\* ------------------------------------------------------------- arithmetic
Min(a, b) == IF a < b THEN a ELSE b
Max(a, b) == IF a > b THEN a ELSE b
Abs(a) == IF a < 0 THEN -a ELSE a
Sign(a) == IF a < 0 THEN -1 ELSE 1

\* a * b and a / b on fixed-point numbers, rounded towards zero.
Mul(a, b) == Sign(a) * Sign(b) * ((Abs(a) * Abs(b)) \div Scale)
Div(a, b) == Sign(a) * Sign(b) * ((Abs(a) * Scale) \div Abs(b))

Range(s) == {s[i] : i \in 1..Len(s)}

\* ------------------------------------------------------------------ facts
NoRef == 0
Refs == 1..MaxRefs
\* The fact ids the callers use.
FactIds == {1, 2}
\* The key of a fact that has no id: fact.id is undefined.
NoId == -1
\* The keys the id index can hold.
FactKeys == FactIds \cup {NoId}
Dims == {"joy", "calm", "anger", "sadness"}
ZeroQuadrant == [d \in Dims |-> 0]

\* The weights the callers give to new facts (0, 0.3, 0.6).
Weights == {0, 3 * (Scale \div 10), 6 * (Scale \div 10)}

\* The facts a caller of the working memory creates.
WMFactInputs == [id : FactIds, weight : Weights, emotionalImpact : {ZeroQuadrant}]

\* A fact object that lacks a required field: it has no id.
MalformedFacts ==
    {[id |-> NoId, weight |-> 3 * (Scale \div 10), emotionalImpact |-> ZeroQuadrant]}

\* A free slot of the heap.
NoFact == [id |-> 0, weight |-> 0, emotionalImpact |-> ZeroQuadrant]

\* ------------------------------------------------------- LRUWorkingMemory
\* WorkingMemory.updateMetrics: hits or misses is incremented (the running
\* average of the access time depends on the clock and is left out).
UpdateMetrics(m, isHit) ==
    IF isHit THEN [m EXCEPT !.hits = @ + 1] ELSE [m EXCEPT !.misses = @ + 1]

MetricsRoom == metrics.hits + metrics.misses < MaxWmOps

\* Array.prototype.findIndex(f => f.id === id): the first index, 0 for -1.
FindIndex(h, fs, id) ==
    IF \E i \in 1..Len(fs) : h[fs[i]].id = id
    THEN CHOOSE i \in 1..Len(fs) :
             /\ h[fs[i]].id = id
             /\ \A j \in 1..(i - 1) : h[fs[j]].id # id
    ELSE 0

RemoveAt(s, i) == SubSeq(s, 1, i - 1) \o SubSeq(s, i + 1, Len(s))

\* The loop of evictByWeight: the first index holding the minimum weight
\* (the comparison is a strict <, so an equal weight further on does not
\* replace the candidate).
RECURSIVE MinWeightScan(_, _, _, _)
MinWeightScan(h, fs, i, minWeightIndex) ==
    IF i > Len(fs) THEN minWeightIndex
    ELSE IF h[fs[i]].weight < h[fs[minWeightIndex]].weight
         THEN MinWeightScan(h, fs, i + 1, i)
         ELSE MinWeightScan(h, fs, i + 1, minWeightIndex)

\* The scan with <= for <: on a tie the last minimum is taken.
RECURSIVE MinWeightScanLastOnTie(_, _, _, _)
MinWeightScanLastOnTie(h, fs, i, minWeightIndex) ==
    IF i > Len(fs) THEN minWeightIndex
    ELSE IF h[fs[i]].weight <= h[fs[minWeightIndex]].weight
         THEN MinWeightScanLastOnTie(h, fs, i + 1, i)
         ELSE MinWeightScanLastOnTie(h, fs, i + 1, minWeightIndex)

MinWeightIndexLastOnTie(h, fs) == MinWeightScanLastOnTie(h, fs, 2, 1)

MinWeightIndex(h, fs) == MinWeightScan(h, fs, 2, 1)

\* evictOldest(): facts.shift(), factMap.delete(evicted.id), evictions++.
\* The result is the triple of the buffer, the id index and the metrics.
EvictOldestOp(h, fs, fm, m) ==
    IF Len(fs) > 0
    THEN [facts |-> Tail(fs),
          factMap |-> [fm EXCEPT ![h[Head(fs)].id] = NoRef],
          metrics |-> [m EXCEPT !.evictions = @ + 1]]
    ELSE [facts |-> fs, factMap |-> fm, metrics |-> m]

\* An evictByWeight() that takes the oldest fact whatever its weight.
EvictByWeightOpOldest(h, fs, fm, m) ==
    IF Len(fs) > 0
    THEN [facts |-> Tail(fs),
          factMap |-> [fm EXCEPT ![h[Head(fs)].id] = NoRef],
          metrics |-> [m EXCEPT !.evictions = @ + 1]]
    ELSE [facts |-> fs, factMap |-> fm, metrics |-> m]

\* evictByWeight(): splice out the first minimum-weight fact.
EvictByWeightOp(h, fs, fm, m) ==
    IF Len(fs) > 0
    THEN LET i == MinWeightIndex(h, fs) IN
         [facts |-> RemoveAt(fs, i),
          factMap |-> [fm EXCEPT ![h[fs[i]].id] = NoRef],
          metrics |-> [m EXCEPT !.evictions = @ + 1]]
    ELSE [facts |-> fs, factMap |-> fm, metrics |-> m]

\* The eviction addFact asks for when the buffer is full.
NeedsEviction(fs, cap) == Len(fs) >= cap

\* addFact(fact), run to completion: evict when full, then index and append.
AddFactOp(h, fs, fm, m, cap, strategy, r) ==
    LET e == IF NeedsEviction(fs, cap)
             THEN IF strategy = "lru"
                  THEN EvictOldestOp(h, fs, fm, m)
                  ELSE EvictByWeightOp(h, fs, fm, m)
             ELSE [facts |-> fs, factMap |-> fm, metrics |-> m]
    IN [facts |-> Append(e.facts, r),
        factMap |-> [e.factMap EXCEPT ![h[r].id] = r],
        metrics |-> UpdateMetrics(e.metrics, TRUE)]

\* The argument of a call is a fact object: one the memory holds, or a new
\* one, which takes the first free slot of the heap.
FreeRefs == {r \in Refs : heap[r] = NoFact}
NewRef == CHOOSE r \in FreeRefs : \A q \in FreeRefs : r <= q
NewRefs == IF FreeRefs = {} THEN {} ELSE {NewRef}
ArgRefs == (Refs \ FreeRefs) \cup NewRefs
ArgHeap(r, f) == IF heap[r] = NoFact THEN [heap EXCEPT ![r] = f] ELSE heap

PureHist == [pure |-> TRUE, adds |-> <<>>]
NoHist == [pure |-> FALSE, adds |-> <<>>]

\* The objects still referred to, and the heap without the others.
Live(fs, fm, hist, runs) ==
    Range(fs) \cup {fm[id] : id \in FactKeys} \cup Range(pendingAdds)
              \cup {hist.adds[i].ref : i \in 1..Len(hist.adds)}
              \cup UNION {Range(runs[i].rest) : i \in 1..Len(runs)}
CollectWith(h, fs, fm, hist, runs) ==
    [r \in Refs |-> IF r \in Live(fs, fm, hist, runs) THEN h[r] ELSE NoFact]
Collect(h, fs, fm, hist) == CollectWith(h, fs, fm, hist, sleepRuns)

\* addFact(fact) for a fact object among refs with its fields among inputs.
AddFactFrom(inputs, refs) ==
    /\ MetricsRoom
    /\ \E r \in refs : \E f \in inputs :
         LET h == ArgHeap(r, f)
             res == AddFactOp(h, facts, factMap, metrics, wmCapacity, wmStrategy, r)
             hist == IF wmHist.pure /\ Len(wmHist.adds) <= wmCapacity
                     THEN [wmHist EXCEPT !.adds =
                               Append(@, [ref |-> r, weight |-> h[r].weight])]
                     ELSE NoHist
         IN /\ heap' = Collect(h, res.facts, res.factMap, hist)
            /\ facts' = res.facts
            /\ factMap' = res.factMap
            /\ metrics' = res.metrics
            /\ wmLast' = [op |-> "addFact", result |-> <<>>]
            /\ wmHist' = hist
    /\ UNCHANGED <<wmCapacity, wmStrategy, pendingAdds>>
    /\ UNCHANGED <<emoVars, ltmVars, sleepVars, serviceVars>>

AddFact == AddFactFrom(WMFactInputs, ArgRefs)

\* addFact(fact) called without waiting for the calls made before, up to its
\* first await or, with no await on its way, to its end.  On a full buffer the
\* eviction runs (evictOldest and evictByWeight have no await of their own)
\* and the call is suspended at `await this.evictOldest()`; otherwise the
\* fact is indexed and appended at once.
AddFactStart ==
    /\ metrics.hits + metrics.misses + Len(pendingAdds) < MaxWmOps
    /\ \E r \in NewRefs : \E f \in WMFactInputs :
         LET h == ArgHeap(r, f) IN
         IF NeedsEviction(facts, wmCapacity)
         THEN LET e == IF wmStrategy = "lru"
                       THEN EvictOldestOp(h, facts, factMap, metrics)
                       ELSE EvictByWeightOp(h, facts, factMap, metrics)
              IN /\ facts' = e.facts
                 /\ factMap' = e.factMap
                 /\ metrics' = e.metrics
                 /\ pendingAdds' = Append(pendingAdds, r)
                 /\ heap' = [x \in Refs |->
                               IF x = r \/ x \in Live(facts', factMap', NoHist, sleepRuns)
                               THEN h[x] ELSE NoFact]
                 /\ wmLast' = [op |-> "addFactAwaits", result |-> <<>>]
         ELSE /\ facts' = Append(facts, r)
              /\ factMap' = [factMap EXCEPT ![h[r].id] = r]
              /\ metrics' = UpdateMetrics(metrics, TRUE)
              /\ pendingAdds' = pendingAdds
              /\ heap' = Collect(h, facts', factMap', NoHist)
              /\ wmLast' = [op |-> "addFact", result |-> <<>>]
    /\ wmHist' = NoHist
    /\ UNCHANGED <<wmCapacity, wmStrategy>>
    /\ UNCHANGED <<emoVars, ltmVars, sleepVars, serviceVars>>

\* The addFact call suspended first goes on after its await: the fact is
\* indexed and appended and a hit is counted; the length of the buffer is not
\* looked at again.
AddFactResume ==
    /\ pendingAdds # <<>>
    /\ LET r == Head(pendingAdds) IN
         /\ facts' = Append(facts, r)
         /\ factMap' = [factMap EXCEPT ![heap[r].id] = r]
         /\ metrics' = UpdateMetrics(metrics, TRUE)
         /\ pendingAdds' = Tail(pendingAdds)
         /\ heap' = Collect(heap, facts', factMap', NoHist)
         /\ wmLast' = [op |-> "addFact", result |-> <<>>]
    /\ wmHist' = NoHist
    /\ UNCHANGED <<wmCapacity, wmStrategy>>
    /\ UNCHANGED <<emoVars, ltmVars, sleepVars, serviceVars>>

\* addFact(fact) with a new fact object that has no id.
AddMalformedFact == AddFactFrom(MalformedFacts, NewRefs)

\* The items passed to store(item): nothing (null or undefined), or a fact
\* object made for the call, well formed or not.
StoreItems == {<<>>} \cup {<<f>> : f \in WMFactInputs \cup MalformedFacts}

\* validateItem(item): item !== null && item !== undefined
ValidateItem(item) == item # <<>>

\* store(item): throws for an item that is null or undefined and passes any
\* other item to addFact.
Store ==
    \E item \in StoreItems :
        IF ValidateItem(item)
        THEN AddFactFrom({item[1]}, NewRefs)
        ELSE /\ wmLast' = [op |-> "storeThrew", result |-> <<>>]
             /\ wmHist' = NoHist
             /\ heap' = Collect(heap, facts, factMap, NoHist)
             /\ UNCHANGED <<facts, factMap, metrics, wmCapacity, wmStrategy, pendingAdds>>
             /\ UNCHANGED <<emoVars, ltmVars, sleepVars, serviceVars>>

\* update(id, item): replaces the indexed fact and the first buffered fact
\* with that id; under 'lru' the replacement moves to the end of the buffer.
\* An unknown id counts a miss and throws.
UpdateOp(h, fs, fm, strategy, id, r) ==
    LET index == FindIndex(h, fs, id)
        replaced == IF index # 0 THEN [fs EXCEPT ![index] = r] ELSE fs
    IN [facts |-> IF index # 0 /\ strategy = "lru"
                  THEN Append(RemoveAt(replaced, index), r)
                  ELSE replaced,
        factMap |-> [fm EXCEPT ![id] = r]]

Update ==
    /\ MetricsRoom
    /\ \E id \in FactIds : \E r \in ArgRefs : \E f \in WMFactInputs :
         LET h == ArgHeap(r, f) IN
         IF factMap[id] # NoRef
         THEN LET res == UpdateOp(h, facts, factMap, wmStrategy, id, r) IN
              /\ heap' = Collect(h, res.facts, res.factMap, NoHist)
              /\ facts' = res.facts
              /\ factMap' = res.factMap
              /\ metrics' = UpdateMetrics(metrics, TRUE)
              /\ wmLast' = [op |-> "update", result |-> <<>>]
         ELSE /\ heap' = Collect(heap, facts, factMap, NoHist)
              /\ metrics' = UpdateMetrics(metrics, FALSE)
              /\ wmLast' = [op |-> "updateThrew", result |-> <<>>]
              /\ UNCHANGED <<facts, factMap>>
    /\ wmHist' = NoHist
    /\ UNCHANGED <<wmCapacity, wmStrategy, pendingAdds>>
    /\ UNCHANGED <<emoVars, ltmVars, sleepVars, serviceVars>>

\* Array.prototype.filter(f => f.id !== id)
RECURSIVE FilterOutId(_, _, _)
FilterOutId(h, fs, id) ==
    IF fs = <<>> THEN <<>>
    ELSE IF h[Head(fs)].id # id
         THEN <<Head(fs)>> \o FilterOutId(h, Tail(fs), id)
         ELSE FilterOutId(h, Tail(fs), id)

\* delete(id): drops the index entry and every buffered fact with that id.
Delete ==
    /\ MetricsRoom
    /\ \E id \in FactIds :
         /\ factMap' = [factMap EXCEPT ![id] = NoRef]
         /\ facts' = FilterOutId(heap, facts, id)
         /\ metrics' = UpdateMetrics(metrics, factMap[id] # NoRef)
         /\ wmLast' = [op |-> "delete", result |-> <<>>]
    /\ heap' = Collect(heap, facts', factMap', NoHist)
    /\ wmHist' = NoHist
    /\ UNCHANGED <<wmCapacity, wmStrategy, pendingAdds>>
    /\ UNCHANGED <<emoVars, ltmVars, sleepVars, serviceVars>>

\* retrieve(id): a lookup in the id index; counts a hit or a miss.
Retrieve ==
    /\ MetricsRoom
    /\ \E id \in FactIds :
         /\ metrics' = UpdateMetrics(metrics, factMap[id] # NoRef)
         /\ wmLast' = [op |-> "retrieve",
                       result |-> IF factMap[id] # NoRef THEN <<factMap[id]>> ELSE <<>>]
    /\ UNCHANGED <<heap, facts, factMap, wmCapacity, wmStrategy, pendingAdds, wmHist>>
    /\ UNCHANGED <<emoVars, ltmVars, sleepVars, serviceVars>>

\* evictOldest() and evictByWeight() are public and may be called directly.
\* evictions is counted up to MaxWmOps as hits and misses are.
EvictOldest ==
    /\ metrics.evictions < MaxWmOps
    /\ LET res == EvictOldestOp(heap, facts, factMap, metrics) IN
         /\ facts' = res.facts
         /\ factMap' = res.factMap
         /\ metrics' = res.metrics
    /\ wmLast' = [op |-> "evictOldest", result |-> <<>>]
    /\ heap' = Collect(heap, facts', factMap', NoHist)
    /\ wmHist' = NoHist
    /\ UNCHANGED <<wmCapacity, wmStrategy, pendingAdds>>
    /\ UNCHANGED <<emoVars, ltmVars, sleepVars, serviceVars>>

EvictByWeight ==
    /\ metrics.evictions < MaxWmOps
    /\ LET res == EvictByWeightOp(heap, facts, factMap, metrics) IN
         /\ facts' = res.facts
         /\ factMap' = res.factMap
         /\ metrics' = res.metrics
    /\ wmLast' = [op |-> "evictByWeight", result |-> <<>>]
    /\ heap' = Collect(heap, facts', factMap', NoHist)
    /\ wmHist' = NoHist
    /\ UNCHANGED <<wmCapacity, wmStrategy, pendingAdds>>
    /\ UNCHANGED <<emoVars, ltmVars, sleepVars, serviceVars>>

\* A clear() that starts the counters again as well.
ClearOpResetsMetrics(fs, fm, m) ==
    [facts |-> <<>>,
     factMap |-> [id \in FactKeys |-> NoRef],
     metrics |-> [hits |-> 0, misses |-> 0, evictions |-> 0]]

\* The body of clear(): this.factMap.clear(); this.factBuffer.facts = [];
\* no statement assigns the metrics.
ClearOp(fs, fm, m) ==
    [facts |-> <<>>,
     factMap |-> [id \in FactKeys |-> NoRef],
     metrics |-> m]

\* clear(): empties the index and the buffer; the metrics are not touched.
Clear ==
    /\ LET res == ClearOp(facts, factMap, metrics) IN
         /\ factMap' = res.factMap
         /\ facts' = res.facts
         /\ metrics' = res.metrics
    /\ wmLast' = [op |-> "clear", result |-> <<>>]
    /\ heap' = Collect(heap, facts', factMap', NoHist)
    /\ wmHist' = NoHist
    /\ UNCHANGED <<wmCapacity, wmStrategy, pendingAdds>>
    /\ UNCHANGED <<emoVars, ltmVars, sleepVars, serviceVars>>

\* [...facts].sort((a, b) => b.weight - a.weight): Array.prototype.sort is
\* stable, so a fact is placed after every fact of at least its weight that
\* precedes it in the buffer.
\* The insertion with > for >=: a fact goes before the facts of its weight, as
\* under a sort that is not stable.
RECURSIVE InsertByWeightDescUnstable(_, _, _)
InsertByWeightDescUnstable(h, sorted, r) ==
    IF sorted = <<>> THEN <<r>>
    ELSE IF h[Head(sorted)].weight > h[r].weight
         THEN <<Head(sorted)>> \o InsertByWeightDescUnstable(h, Tail(sorted), r)
         ELSE <<r>> \o sorted

RECURSIVE InsertByWeightDesc(_, _, _)
InsertByWeightDesc(h, sorted, r) ==
    IF sorted = <<>> THEN <<r>>
    ELSE IF h[Head(sorted)].weight >= h[r].weight
         THEN <<Head(sorted)>> \o InsertByWeightDesc(h, Tail(sorted), r)
         ELSE <<r>> \o sorted

RECURSIVE SortFrom(_, _, _)
SortFrom(h, sorted, rest) ==
    IF rest = <<>> THEN sorted
    ELSE SortFrom(h, InsertByWeightDesc(h, sorted, Head(rest)), Tail(rest))

SortByWeightDesc(h, fs) == SortFrom(h, <<>>, fs)

\* Array.prototype.slice(0, n) for n >= 0
SliceTo(s, n) == SubSeq(s, 1, Min(n, Len(s)))

\* getSampleByWeight(sampleSize): the first sampleSize facts of a sorted copy.
SampleByWeight(h, fs, sampleSize) == SliceTo(SortByWeightDesc(h, fs), sampleSize)

GetSampleByWeight ==
    /\ \E n \in 0..MaxSample :
         wmLast' = [op |-> "getSampleByWeight",
                    result |-> <<n>> \o SampleByWeight(heap, facts, n)]
    /\ UNCHANGED <<heap, facts, factMap, metrics, wmCapacity, wmStrategy, pendingAdds, wmHist>>
    /\ UNCHANGED <<emoVars, ltmVars, sleepVars, serviceVars>>

\* Math.max(...facts.map(f => f.weight)); of no argument it is -Infinity,
\* which any number below every weight stands for.
RECURSIVE MaxWeightFrom(_, _, _)
MaxWeightFrom(h, fs, best) ==
    IF fs = <<>> THEN best
    ELSE MaxWeightFrom(h, Tail(fs), Max(best, h[Head(fs)].weight))

MaxWeight(h, fs) == MaxWeightFrom(h, fs, -1)

\* fact.weight = fact.weight / maxWeight, assigned to the object itself
NormalizedWeight(w, maxWeight) == Div(w, maxWeight)

\* facts.forEach(fact => { fact.weight = fact.weight / maxWeight;
\*                         factMap.set(fact.id, fact) }):
\* one assignment per buffer position, whatever object stands there.
RECURSIVE NormalizeEach(_, _, _, _)
NormalizeEach(h, fm, fs, maxWeight) ==
    IF fs = <<>> THEN [heap |-> h, factMap |-> fm]
    ELSE LET r == Head(fs) IN
         NormalizeEach([h EXCEPT ![r].weight = NormalizedWeight(@, maxWeight)],
                       [fm EXCEPT ![h[r].id] = r],
                       Tail(fs), maxWeight)

\* consolidate(): divides the weights by the maximum weight when it is > 0.
ConsolidateOp(h, fm, fs) ==
    LET maxWeight == MaxWeight(h, fs) IN
    IF maxWeight > 0
    THEN NormalizeEach(h, fm, fs, maxWeight)
    ELSE [heap |-> h, factMap |-> fm]

Consolidate ==
    /\ \A r \in Refs : heap[r].weight <= WeightCeiling
    /\ LET res == ConsolidateOp(heap, factMap, facts) IN
         /\ heap' = Collect(res.heap, facts, res.factMap, NoHist)
         /\ factMap' = res.factMap
    /\ wmLast' = [op |-> "consolidate", result |-> <<>>]
    /\ wmHist' = NoHist
    /\ UNCHANGED <<facts, metrics, wmCapacity, wmStrategy, pendingAdds>>
    /\ UNCHANGED <<emoVars, ltmVars, sleepVars, serviceVars>>

\* new LRUWorkingMemory(name, capacity, evictionStrategy)
InitWMWith(capacities, strategies) ==
    /\ heap = [r \in Refs |-> NoFact]
    /\ facts = <<>>
    /\ factMap = [id \in FactKeys |-> NoRef]
    /\ metrics = [hits |-> 0, misses |-> 0, evictions |-> 0]
    /\ wmCapacity \in capacities
    /\ wmStrategy \in strategies
    /\ wmLast = [op |-> "new", result |-> <<>>]
    /\ wmHist = PureHist
    /\ pendingAdds = <<>>

\* ------------------------------------------------ SupabaseEmotionalMemory
\* config.emotional.maxQuadrantValue and minQuadrantValue: 1.0 and -1.0
MaxQuadrantValue == Scale
MinQuadrantValue == -Scale
\* config.memory.emotionalDecayRate: 0.1
EmotionalDecayRate == Scale \div 10

\* Math.sqrt on fixed-point numbers, rounded down: the greatest n in lo..hi
\* with n * n <= v.
RECURSIVE SqrtBetween(_, _, _)
SqrtBetween(v, lo, hi) ==
    IF lo >= hi THEN lo
    ELSE LET mid == (lo + hi + 1) \div 2 IN
         IF mid * mid <= v THEN SqrtBetween(v, mid, hi)
         ELSE SqrtBetween(v, lo, mid - 1)

Sqrt(x) == SqrtBetween(x * Scale, 0, Min(x * Scale, 46340))

\* calculateIntensity(state): the Euclidean norm of the four components.
CalculateIntensity(q) ==
    Sqrt(Mul(q.joy, q.joy) + Mul(q.calm, q.calm)
         + Mul(q.anger, q.anger) + Mul(q.sadness, q.sadness))

\* A clampValue that returns its argument.
ClampValueUnbounded(value) == value

\* SupabaseEmotionalMemory.clampValue
ClampValue(value) == Max(MinQuadrantValue, Min(MaxQuadrantValue, value))

\* The impact vectors the callers pass: components -1.5, 0 and 0.6 and their
\* negatives, inside and outside [-1, 1], and an impact on joy alone.
ImpactValues == {-((3 * Scale) \div 2), 0, (6 * Scale) \div 10}
\* An impact on joy alone: {joy: 0.5, calm: 0, anger: 0, sadness: 0}.
JoyImpact == [joy |-> Scale \div 2, calm |-> 0, anger |-> 0, sadness |-> 0]
EmoImpacts ==
    {[joy |-> a, calm |-> b, anger |-> -a, sadness |-> -b] : a, b \in ImpactValues}
        \cup {JoyImpact}

\* The decay rates the callers pass: the configured 0.1, and 2.
DecayRates == {EmotionalDecayRate, 2 * Scale}

EmoRoom == emoCalls < MaxEmoCalls

\* The assignment with the state read left out: the impact replaces the
\* state, as when an update is lost.
UpdateStateOverwrites(state, impact) == [d \in Dims |-> ClampValue(impact[d])]

\* The body of updateState up to its await: currentState is replaced by the
\* clamped sum.
UpdateStateOp(state, impact) == [d \in Dims |-> ClampValue(state[d] + impact[d])]

\* store(item): one row of emotional_states; the result of the insert is not
\* looked at, so a failed insert leaves the table as it was and the call
\* completes all the same.
StoreOp(row, state, inserted) ==
    IF inserted
    THEN <<[quadrant |-> state, intensity |-> CalculateIntensity(state)]>>
    ELSE row

\* One more issued updateState call in the record of the calls: the clamped
\* sum of the recorded state and the impact.
AppliedInOrder(expected, impact) ==
    [d \in Dims |-> Max(-Scale, Min(Scale, expected[d] + impact[d]))]

\* updateState(impact)
UpdateStateWith(impact) ==
    /\ EmoRoom
    /\ \E inserted \in BOOLEAN :
         /\ emState' = UpdateStateOp(emState, impact)
         /\ emRow' = StoreOp(emRow, emState', inserted)
         /\ emExpected' = AppliedInOrder(emExpected, impact)
    /\ emoLast' = [op |-> "updateState", ok |-> TRUE]
    /\ emoCalls' = emoCalls + 1
    /\ UNCHANGED <<svcState, svcRow, svcCalls>>
    /\ UNCHANGED <<wmVars, ltmVars, sleepVars, serviceVars>>

UpdateState == \E impact \in EmoImpacts : UpdateStateWith(impact)

\* The state decayEmotions(rate) assigns: every component times the rate.
DecayedState(state, rate) == [d \in Dims |-> Mul(state[d], rate)]

\* decayEmotions(rate)
DecayEmotions ==
    /\ EmoRoom
    /\ \E rate \in DecayRates : \E inserted \in BOOLEAN :
         /\ emState' = DecayedState(emState, rate)
         /\ emRow' = StoreOp(emRow, emState', inserted)
         /\ emExpected' = emState'
    /\ emoLast' = [op |-> "decayEmotions", ok |-> TRUE]
    /\ emoCalls' = emoCalls + 1
    /\ UNCHANGED <<svcState, svcRow, svcCalls>>
    /\ UNCHANGED <<wmVars, ltmVars, sleepVars, serviceVars>>

\* ------------------------------------------------------- EmotionalService
\* EmotionalService.clampValue: Math.max(-1, Math.min(1, value))
SvcClampValue(value) == Max(-Scale, Min(Scale, value))

\* calculateNewState(impact): the clamped sum and its intensity.
CalculateNewState(state, impact) ==
    LET newQuadrant == [d \in Dims |-> SvcClampValue(state.quadrant[d] + impact[d])]
    IN [quadrant |-> newQuadrant, intensity |-> CalculateIntensity(newQuadrant)]

\* processFact(fact) for a fact that carries its emotionalImpact: the new
\* state is stored through update_emotional_state and then becomes the
\* current state; when the store call throws, processFact rejects before the
\* assignment.  The analysis returned is { previousState: this.currentState,
\* newState, ... }, this.currentState read after the assignment (the states
\* without their lastUpdated).
ProcessFact ==
    /\ EmoRoom
    /\ \E impact \in EmoImpacts : \E stored \in BOOLEAN :
         LET newState == CalculateNewState(svcState, impact) IN
         IF stored
         THEN /\ svcRow' = <<newState>>
              /\ svcState' = newState
              /\ emoLast' = [op |-> "processFact", ok |-> TRUE,
                             previousState |-> svcState', newState |-> newState]
         ELSE /\ emoLast' = [op |-> "processFact", ok |-> FALSE]
              /\ UNCHANGED <<svcState, svcRow>>
    /\ emoCalls' = emoCalls + 1
    /\ UNCHANGED <<emState, emRow, emExpected, svcCalls>>
    /\ UNCHANGED <<wmVars, ltmVars, sleepVars, serviceVars>>

\* The positions of the processFact calls suspended at their await.
AwaitingStore == {i \in 1..Len(svcCalls) : svcCalls[i].outcome = "awaiting"}

\* processFact(fact), up to its await of updateEmotionalState: the new state
\* is computed from the current state and sent to the store.
ProcessFactStartWith(impact) ==
    /\ EmoRoom
    /\ LET call == [previous |-> svcState.quadrant,
                    impact |-> impact,
                    newState |-> CalculateNewState(svcState, impact),
                    outcome |-> "awaiting"]
       IN svcCalls' = IF AwaitingStore = {} THEN <<call>> ELSE Append(svcCalls, call)
    /\ emoCalls' = emoCalls + 1
    /\ UNCHANGED <<emState, emRow, svcState, svcRow, emoLast, emExpected>>
    /\ UNCHANGED <<wmVars, ltmVars, sleepVars, serviceVars>>

ProcessFactStart == \E impact \in EmoImpacts : ProcessFactStartWith(impact)

\* updateEmotionalState returns to the suspended processFact i: the state
\* computed before the await becomes the current state; when the store call
\* throws, processFact rejects before the assignment.
ProcessFactResumeAt(i) ==
    /\ i \in AwaitingStore
    /\ \E stored \in BOOLEAN :
         IF stored
         THEN /\ svcRow' = <<svcCalls[i].newState>>
              /\ svcState' = svcCalls[i].newState
              /\ svcCalls' = [svcCalls EXCEPT ![i].outcome = "stored"]
              /\ emoLast' = [op |-> "processFact", ok |-> TRUE,
                             previousState |-> svcState',
                             newState |-> svcCalls[i].newState]
         ELSE /\ svcCalls' = [svcCalls EXCEPT ![i].outcome = "rejected"]
              /\ emoLast' = [op |-> "processFact", ok |-> FALSE]
              /\ UNCHANGED <<svcState, svcRow>>
    /\ UNCHANGED <<emState, emRow, emoCalls, emExpected>>
    /\ UNCHANGED <<wmVars, ltmVars, sleepVars, serviceVars>>

ProcessFactResume == \E i \in 1..Len(svcCalls) : ProcessFactResumeAt(i)

\* The vector applyEmotionalDecay passes on: every component times 1 - rate.
DecayedQuadrant(q, decayRate) == [d \in Dims |-> Mul(q[d], Scale - decayRate)]

\* applyEmotionalDecay(decayRate): the decayed vector goes through
\* calculateNewState, which adds it to the current state and clamps.
ApplyEmotionalDecayWith(decayRate) ==
    /\ EmoRoom
    /\ svcState' = CalculateNewState(svcState,
                                     DecayedQuadrant(svcState.quadrant, decayRate))
    /\ emoLast' = [op |-> "applyEmotionalDecay", ok |-> TRUE]
    /\ emoCalls' = emoCalls + 1
    /\ UNCHANGED <<emState, emRow, svcRow, svcCalls, emExpected>>
    /\ UNCHANGED <<wmVars, ltmVars, sleepVars, serviceVars>>

ApplyEmotionalDecay == \E decayRate \in DecayRates : ApplyEmotionalDecayWith(decayRate)

\* new SupabaseEmotionalMemory(name) and new EmotionalService(dbService)
InitEmotional ==
    /\ emState = ZeroQuadrant
    /\ emRow = <<>>
    /\ svcState = [quadrant |-> ZeroQuadrant, intensity |-> 0]
    /\ svcRow = <<>>
    /\ svcCalls = <<>>
    /\ emoLast = [op |-> "new", ok |-> TRUE]
    /\ emoCalls = 0
    /\ emExpected = ZeroQuadrant

NextEmo ==
    \/ UpdateState
    \/ DecayEmotions
    \/ ProcessFact
    \/ ApplyEmotionalDecay

\* ------------------------------------------------- SupabaseLongTermMemory
\* A Map as a function on the keys it holds.
\* A set that keeps the entry a key already has.
MapSetIfAbsent(m, k, v) == [x \in (DOMAIN m) \cup {k} |-> IF x \in DOMAIN m THEN m[x] ELSE v]

MapSet(m, k, v) == [x \in (DOMAIN m) \cup {k} |-> IF x = k THEN v ELSE m[x]]
EmptyMap == [x \in {} |-> 0]

PatternIds == {1, 2}

\* config.memory.weightIncrement: 0.1
WeightIncrement == Scale \div 10

\* The fact ids the callers list in the patterns they store.
StoredFacts == {1}

\* The signature the callers give to the patterns they store.
StoredSignature == [joy |-> Scale, calm |-> -Scale, anger |-> 0, sadness |-> Scale \div 2]

\* The patterns a caller stores: weight 0, 0.5 or 1.5 (no weight is refused),
\* last accessed now or at the latest time of the model.
PatternInputs ==
    [facts : {StoredFacts},
     weight : {0, Scale \div 2, (3 * Scale) \div 2},
     emotionalSignature : {StoredSignature},
     lastAccessed : {now, MaxTime}]

\* The amounts passed to strengthenPattern: -0.5, the configured 0.1, and 2.
StrengthenAmounts == {-(Scale \div 2), WeightIncrement, 2 * Scale}

\* The optional emotionalContext: absent, or a vector within [-1, 1].
NoContext == [given |-> FALSE, quadrant |-> ZeroQuadrant]
EmotionalContexts ==
    {NoContext,
     [given |-> TRUE,
      quadrant |-> [joy |-> Scale, calm |-> -Scale, anger |-> Scale, sadness |-> Scale]]}

LtmRoom == ltmCalls < MaxLtmCalls

\* Math.exp(-timeSinceLastAccess / 30 days), the time counted in units of 30
\* days: e^-1 = 0.368 per unit elapsed, e = 2.718 per unit that lastAccessed
\* lies in the future.
RECURSIVE DecayFactor(_)
DecayFactor(elapsed) ==
    IF elapsed = 0 THEN Scale
    ELSE IF elapsed > 0 THEN Mul(DecayFactor(elapsed - 1), 368)
    ELSE Mul(DecayFactor(elapsed + 1), 2718)

\* calculateEmotionalSimilarity: the mean of the products of the components.
CalculateEmotionalSimilarity(emotionalContext, pattern) ==
    LET sig == pattern.emotionalSignature
        sum == Mul(emotionalContext.joy, sig.joy) + Mul(emotionalContext.calm, sig.calm)
               + Mul(emotionalContext.anger, sig.anger)
               + Mul(emotionalContext.sadness, sig.sadness)
    IN Div(sum, Cardinality(Dims) * Scale)

\* updateEmotionalSignature: the mean of the signature and the context.
UpdateEmotionalSignature(signature, context) ==
    [d \in Dims |-> Div(signature[d] + context[d], 2 * Scale)]

\* The weight with no upper bound applied.
StrengthenedWeightUncapped(decayedWeight, gain) == decayedWeight + gain

\* Math.min(1, pattern.weight + amount * emotionalReinforcement)
StrengthenedWeight(decayedWeight, gain) == Min(Scale, decayedWeight + gain)

\* What strengthenPattern makes of a cached pattern at time t.
\* The strengthening with the decay left out.
StrengthenOpNoDecay(pattern, amount, context, t) ==
    LET emotionalReinforcement ==
            IF context.given
            THEN Scale + CalculateEmotionalSimilarity(context.quadrant, pattern)
            ELSE Scale
    IN [facts |-> pattern.facts,
        weight |-> StrengthenedWeight(pattern.weight, Mul(amount, emotionalReinforcement)),
        emotionalSignature |->
            IF context.given
            THEN UpdateEmotionalSignature(pattern.emotionalSignature, context.quadrant)
            ELSE pattern.emotionalSignature,
        lastAccessed |-> t]

StrengthenOp(pattern, amount, context, t) ==
    LET decayFactor == DecayFactor(t - pattern.lastAccessed)
        decayedWeight == Mul(pattern.weight, decayFactor)
        emotionalReinforcement ==
            IF context.given
            THEN Scale + CalculateEmotionalSimilarity(context.quadrant, pattern)
            ELSE Scale
    IN [facts |-> pattern.facts,
        weight |-> StrengthenedWeight(decayedWeight, Mul(amount, emotionalReinforcement)),
        emotionalSignature |->
            IF context.given
            THEN UpdateEmotionalSignature(pattern.emotionalSignature, context.quadrant)
            ELSE pattern.emotionalSignature,
        lastAccessed |-> t]

\* ensureInitialized(), when loadPatterns succeeds: every row is set in the cache.
LoadedCache(cache, rows) ==
    [x \in (DOMAIN cache) \cup (DOMAIN rows) |->
        IF x \in DOMAIN rows THEN rows[x] ELSE cache[x]]
CacheAfterInit == IF initialized THEN patterns ELSE LoadedCache(patterns, dbPatterns)

\* updatePattern(pattern): UPDATE ... WHERE id = pattern.id
UpdatedRows(rows, id, pattern) ==
    IF id \in DOMAIN rows THEN MapSet(rows, id, pattern) ELSE rows

\* A lookup that makes an entry for an id the cache does not hold.
CachedPatternOrNew(cache, id) ==
    IF id \in DOMAIN cache THEN <<cache[id]>>
    ELSE <<[facts |-> {}, weight |-> 0, emotionalSignature |-> ZeroQuadrant,
            lastAccessed |-> now]>>

\* this.patterns.get(patternId): the pattern, or nothing (undefined).
CachedPattern(cache, id) == IF id \in DOMAIN cache THEN <<cache[id]>> ELSE <<>>

LtmRejected(op, id) ==
    /\ ltmLast' = [op |-> op, id |-> id, outcome |-> "rejected", written |-> <<>>]
    /\ UNCHANGED <<patterns, initialized, dbPatterns>>

\* strengthenPattern(patternId, amount, emotionalContext?), run to completion;
\* loaded and updated say whether loadPatterns and updatePattern succeed.
StrengthenCall(id, amount, context, loaded, updated) ==
    /\ LtmRoom
    /\   IF ~initialized /\ ~loaded
         THEN LtmRejected("strengthenPattern", id)
         ELSE LET cache == CacheAfterInit IN
              /\ initialized' = TRUE
              /\ IF CachedPattern(cache, id) # <<>>
                 THEN LET pattern == StrengthenOp(CachedPattern(cache, id)[1],
                                                  amount, context, now) IN
                      /\ patterns' = MapSet(cache, id, pattern)
                      /\ IF updated
                         THEN /\ dbPatterns' = UpdatedRows(dbPatterns, id, pattern)
                              /\ ltmLast' = [op |-> "strengthenPattern", id |-> id,
                                             outcome |-> "completed",
                                             written |-> <<pattern.weight>>]
                         ELSE /\ dbPatterns' = dbPatterns
                              /\ ltmLast' = [op |-> "strengthenPattern", id |-> id,
                                             outcome |-> "rejected", written |-> <<>>]
                 ELSE /\ patterns' = cache
                      /\ dbPatterns' = dbPatterns
                      /\ ltmLast' = [op |-> "strengthenPattern", id |-> id,
                                     outcome |-> "notFound", written |-> <<>>]
    /\ ltmCalls' = ltmCalls + 1
    /\ UNCHANGED <<now, ltmPending, ltmReturned>>
    /\ UNCHANGED <<wmVars, emoVars, sleepVars, serviceVars>>

StrengthenPatternWith(id, amount, context) ==
    \E loaded, updated \in BOOLEAN : StrengthenCall(id, amount, context, loaded, updated)

StrengthenPattern ==
    \E id \in PatternIds : \E amount \in StrengthenAmounts :
    \E context \in EmotionalContexts : StrengthenPatternWith(id, amount, context)

\* strengthenPattern(patternId, 0.3) and strengthenPattern(patternId, 0.3,
\* emotionalContext): the calls with an amount of 0.3.
ScenarioAmount == 3 * (Scale \div 10)
StrengthenByScenarioAmount ==
    \E id \in PatternIds : \E context \in EmotionalContexts :
        StrengthenPatternWith(id, ScenarioAmount, context)

\* storePattern(pattern): the upsert first, then the cache entry; a failed
\* upsert rejects the call and leaves the cache as it was.
StoreCall(id, pattern, loaded, stored) ==
    /\ LtmRoom
    /\   IF ~initialized /\ ~loaded
         THEN LtmRejected("storePattern", id)
         ELSE LET cache == CacheAfterInit IN
              /\ initialized' = TRUE
              /\ IF stored
                 THEN /\ dbPatterns' = MapSet(dbPatterns, id, pattern)
                      /\ patterns' = MapSet(cache, id, pattern)
                      /\ ltmLast' = [op |-> "storePattern", id |-> id,
                                     outcome |-> "completed",
                                     written |-> <<pattern.weight>>]
                 ELSE /\ dbPatterns' = dbPatterns
                      /\ patterns' = cache
                      /\ ltmLast' = [op |-> "storePattern", id |-> id,
                                     outcome |-> "rejected", written |-> <<>>]
    /\ ltmCalls' = ltmCalls + 1
    /\ UNCHANGED <<now, ltmPending, ltmReturned>>
    /\ UNCHANGED <<wmVars, emoVars, sleepVars, serviceVars>>

StorePatternWith(id, pattern) ==
    \E loaded, stored \in BOOLEAN : StoreCall(id, pattern, loaded, stored)

StorePattern ==
    \E id \in PatternIds : \E pattern \in PatternInputs : StorePatternWith(id, pattern)

\* The copy findSimilarPatterns makes of a related pattern: its weight
\* multiplied by 1 + the emotional similarity when a context is given.
WeightedPattern(pattern, context) ==
    IF context.given
    THEN [pattern EXCEPT !.weight =
              Mul(pattern.weight,
                  Scale + CalculateEmotionalSimilarity(context.quadrant, pattern))]
    ELSE pattern

\* findSimilarPatterns(embedding, threshold, emotionalContext), run to
\* completion.  related are the rows findPatternsWithFacts returns for the
\* facts similar to the embedding (every row when no fact is similar);
\* loaded and found say whether loadPatterns and the two queries succeed.
\* Each weighted copy is set in the cache under its id.
FindSimilarCall(context, related, loaded, found) ==
    /\ LtmRoom
    /\   IF ~initialized /\ ~loaded
         THEN LtmRejected("findSimilarPatterns", 0) /\ ltmReturned' = ltmReturned
         ELSE LET cache == CacheAfterInit
                  weightedPatterns ==
                      [x \in related |-> WeightedPattern(dbPatterns[x], context)]
              IN
              /\ initialized' = TRUE
              /\ dbPatterns' = dbPatterns
              /\ IF found
                 THEN /\ patterns' = LoadedCache(cache, weightedPatterns)
                      /\ ltmReturned' = related
                      /\ ltmLast' = [op |-> "findSimilarPatterns", id |-> 0,
                                     outcome |-> "completed", written |-> <<>>]
                 ELSE /\ patterns' = cache
                      /\ ltmReturned' = ltmReturned
                      /\ ltmLast' = [op |-> "findSimilarPatterns", id |-> 0,
                                     outcome |-> "rejected", written |-> <<>>]
    /\ ltmCalls' = ltmCalls + 1
    /\ UNCHANGED <<now, ltmPending>>
    /\ UNCHANGED <<wmVars, emoVars, sleepVars, serviceVars>>

FindSimilarWith(context) ==
    \E related \in SUBSET (DOMAIN dbPatterns) : \E loaded, found \in BOOLEAN :
        FindSimilarCall(context, related, loaded, found)

FindSimilarPatterns == \E context \in EmotionalContexts : FindSimilarWith(context)

\* findPatternsWithFacts(factIds): .contains('facts', factIds) selects the
\* rows whose facts column contains every one of factIds (facts @> factIds).
FindPatternsWithFacts(rows, factIds) ==
    {x \in DOMAIN rows : factIds \subseteq rows[x].facts}

\* findSimilarPatterns(embedding, threshold) when findSimilarFacts returns the
\* facts of the ids similarFacts.
FindSimilarTo(similarFacts) ==
    \E loaded, found \in BOOLEAN :
        FindSimilarCall(NoContext, FindPatternsWithFacts(dbPatterns, similarFacts),
                        loaded, found)

FindSimilarSearch == \E similarFacts \in SUBSET FactIds : FindSimilarTo(similarFacts)

\* consolidateMemory: fact.weight > 0.5, the threshold for a new pattern
CreationThreshold == Scale \div 2

\* The facts passed to consolidateMemory: the first fact id with weight 1,
\* the others with weight 0.5, and the lists of them, of up to as many facts
\* as there are fact ids.
ConsolidationFacts ==
    {[id |-> x,
      weight |-> IF \A y \in FactIds : x <= y THEN Scale ELSE CreationThreshold,
      emotionalImpact |-> JoyImpact] : x \in FactIds}
ConsolidationLists ==
    UNION {[1..n -> ConsolidationFacts] : n \in 0..Cardinality(FactIds)}

\* Math.random().toString(36).substring(7), taken as an id that no pattern
\* of the cache or the table has.
NewStoredPatternId(st) ==
    CHOOSE x \in 1..(Cardinality(DOMAIN st.cache \cup DOMAIN st.db) + 1) :
        /\ x \notin DOMAIN st.cache \cup DOMAIN st.db
        /\ \A y \in 1..(x - 1) : y \in DOMAIN st.cache \cup DOMAIN st.db

\* consolidateMemory creating a pattern for a fact at the threshold as well.
ConsolidateFactAtThreshold(st, fact, similarFacts) ==
    LET related == FindPatternsWithFacts(st.db, similarFacts)
        created == [facts |-> {fact.id}, weight |-> fact.weight,
                    emotionalSignature |-> fact.emotionalImpact, lastAccessed |-> now]
        found == LoadedCache(st.cache, [x \in related |-> st.db[x]])
    IN IF related # {}
       THEN [cache |-> [x \in DOMAIN found |->
                           IF x \in related
                           THEN StrengthenOp(found[x], fact.weight, NoContext, now)
                           ELSE found[x]],
             db |-> [x \in DOMAIN st.db |->
                        IF x \in related
                        THEN StrengthenOp(found[x], fact.weight, NoContext, now)
                        ELSE st.db[x]]]
       ELSE IF fact.weight >= CreationThreshold
       THEN [cache |-> MapSet(st.cache, NewStoredPatternId(st), created),
             db |-> MapSet(st.db, NewStoredPatternId(st), created)]
       ELSE st

\* One turn of the loop of consolidateMemory, on the cache and the table st,
\* when findSimilarFacts returns the facts of the ids similarFacts and every
\* database call succeeds: the patterns found are cached and strengthened by
\* the weight of the fact; with none found, a fact heavier than the
\* threshold gets a pattern of its own.
ConsolidateFact(st, fact, similarFacts) ==
    LET related == FindPatternsWithFacts(st.db, similarFacts)
        found == LoadedCache(st.cache, [x \in related |-> st.db[x]])
        created == [facts |-> {fact.id}, weight |-> fact.weight,
                    emotionalSignature |-> fact.emotionalImpact, lastAccessed |-> now]
    IN IF related # {}
       THEN [cache |-> [x \in DOMAIN found |->
                           IF x \in related
                           THEN StrengthenOp(found[x], fact.weight, NoContext, now)
                           ELSE found[x]],
             db |-> [x \in DOMAIN st.db |->
                        IF x \in related
                        THEN StrengthenOp(found[x], fact.weight, NoContext, now)
                        ELSE st.db[x]]]
       ELSE IF fact.weight > CreationThreshold
       THEN [cache |-> MapSet(st.cache, NewStoredPatternId(st), created),
             db |-> MapSet(st.db, NewStoredPatternId(st), created)]
       ELSE st

\* for (const fact of facts): the turns one after another; search gives, for
\* the id of a fact, the ids findSimilarFacts returns for its embedding.
RECURSIVE ConsolidateFacts(_, _, _)
ConsolidateFacts(st, given, search) ==
    IF given = <<>> THEN st
    ELSE ConsolidateFacts(ConsolidateFact(st, Head(given), search[Head(given).id]),
                          Tail(given), search)

\* consolidateMemory(facts), run to completion.  loaded says whether
\* loadPatterns succeeds; the database calls made for the first failAfter
\* facts succeed and the next one, if there is one, throws: the call then
\* rejects with the facts before it processed.  The record of a completed
\* call keeps the facts it was given and what the searches returned.
ConsolidateMemoryCall(given, search, loaded, failAfter) ==
    /\ LtmRoom
    /\ IF ~initialized /\ ~loaded
       THEN LtmRejected("consolidateMemory", 0)
       ELSE LET st == ConsolidateFacts([cache |-> CacheAfterInit, db |-> dbPatterns],
                                       SubSeq(given, 1, failAfter), search)
            IN /\ initialized' = TRUE
               /\ patterns' = st.cache
               /\ dbPatterns' = st.db
               /\ ltmLast' = IF failAfter = Len(given)
                              THEN [op |-> "consolidateMemory", id |-> 0,
                                    outcome |-> "completed", written |-> <<>>,
                                    given |-> given, similar |-> search]
                              ELSE [op |-> "consolidateMemory", id |-> 0,
                                    outcome |-> "rejected", written |-> <<>>]
    /\ ltmCalls' = ltmCalls + 1
    /\ UNCHANGED <<now, ltmPending, ltmReturned>>
    /\ UNCHANGED <<wmVars, emoVars, sleepVars, serviceVars>>

\* The searches are those of the facts given: nothing is looked up for
\* another fact.
ConsolidateMemory ==
    \E given \in ConsolidationLists :
    \E search \in {s \in [FactIds -> SUBSET FactIds] :
                      \A x \in FactIds :
                          (\A n \in 1..Len(given) : given[n].id # x) => s[x] = {}} :
    \E loaded \in (IF initialized THEN {TRUE} ELSE BOOLEAN) :
    \E failAfter \in 0..Len(given) :
        ConsolidateMemoryCall(given, search, loaded, failAfter)

\* A patterns table with a pattern of fact 1 and a pattern of facts 1 and 2.
FactRows ==
    [x \in PatternIds |->
        [facts |-> 1..x, weight |-> Scale \div 2,
         emotionalSignature |-> StoredSignature, lastAccessed |-> 0]]

\* The cutoff of consolidate(): pattern.weight <= 0.2
LowWeightCutoff == Scale \div 5

\* patternsToRemove: the ids of the cached patterns at or under the cutoff.
PatternsToRemove(cache) == {x \in DOMAIN cache : cache[x].weight <= LowWeightCutoff}

\* A map without the keys in ids (Map.delete, DELETE ... WHERE id IN ids).
Without(m, ids) == [x \in (DOMAIN m) \ ids |-> m[x]]

\* SupabaseLongTermMemory.consolidate(), run to completion.  removed says
\* whether removePatterns succeeds (it is called only with an id to remove);
\* when it fails the call rejects before the cache is touched.
ConsolidatePatterns ==
    /\ LtmRoom
    /\ \E loaded, removed \in BOOLEAN :
         IF ~initialized /\ ~loaded
         THEN LtmRejected("consolidate", 0)
         ELSE LET cache == CacheAfterInit
                  patternsToRemove == PatternsToRemove(cache)
              IN
              /\ initialized' = TRUE
              /\ IF patternsToRemove = {} \/ removed
                 THEN /\ dbPatterns' = Without(dbPatterns, patternsToRemove)
                      /\ patterns' = Without(cache, patternsToRemove)
                      /\ ltmLast' = [op |-> "consolidate", id |-> 0,
                                     outcome |-> "completed", written |-> <<>>]
                 ELSE /\ dbPatterns' = dbPatterns
                      /\ patterns' = cache
                      /\ ltmLast' = [op |-> "consolidate", id |-> 0,
                                     outcome |-> "rejected", written |-> <<>>]
    /\ ltmCalls' = ltmCalls + 1
    /\ UNCHANGED <<now, ltmPending, ltmReturned>>
    /\ UNCHANGED <<wmVars, emoVars, sleepVars, serviceVars>>

\* consolidate() on an initialized memory with a pattern to remove, up to its
\* await of removePatterns: the ids to remove are those of the cached patterns
\* at or under the cutoff at this moment.
ConsolidateStart ==
    /\ LtmRoom
    /\ initialized
    /\ PatternsToRemove(patterns) # {}
    /\ ltmPending' = Append(ltmPending, [op |-> "consolidate",
                                         ids |-> PatternsToRemove(patterns),
                                         rows |-> EmptyMap])
    /\ ltmCalls' = ltmCalls + 1
    /\ UNCHANGED <<patterns, initialized, dbPatterns, now, ltmLast, ltmReturned>>
    /\ UNCHANGED <<wmVars, emoVars, sleepVars, serviceVars>>

\* removePatterns returns to the suspended consolidate() i: when it succeeded
\* the rows are deleted and the ids chosen before the await are deleted from
\* the cache, whatever the cache holds for them now; when it failed the call
\* rejects and the cache is not touched.
ConsolidateResumeAt(i) ==
    /\ ltmPending[i].op = "consolidate"
    /\ \E removed \in BOOLEAN :
         IF removed
         THEN /\ dbPatterns' = Without(dbPatterns, ltmPending[i].ids)
              /\ patterns' = Without(patterns, ltmPending[i].ids)
              /\ ltmLast' = [op |-> "consolidate", id |-> 0,
                             outcome |-> "completed", written |-> <<>>]
         ELSE /\ ltmLast' = [op |-> "consolidate", id |-> 0,
                             outcome |-> "rejected", written |-> <<>>]
              /\ UNCHANGED <<patterns, dbPatterns>>
    /\ ltmPending' = RemoveAt(ltmPending, i)
    /\ UNCHANGED <<initialized, now, ltmCalls, ltmReturned>>
    /\ UNCHANGED <<wmVars, emoVars, sleepVars, serviceVars>>

ConsolidateResume == \E i \in 1..Len(ltmPending) : ConsolidateResumeAt(i)

\* getSignificantPatterns(limit = 10)
DefaultLimit == 10

\* SELECT * FROM patterns ORDER BY weight DESC LIMIT limit: the rows of the
\* limit greatest weights.
SignificantRows(rows, limit) ==
    LET kept == CHOOSE S \in SUBSET (DOMAIN rows) :
                    /\ Cardinality(S) = Min(limit, Cardinality(DOMAIN rows))
                    /\ \A x \in S : \A y \in (DOMAIN rows) \ S :
                           rows[x].weight >= rows[y].weight
    IN [x \in kept |-> rows[x]]

\* getSignificantPatterns(), up to its await of the query: the cache is loaded
\* when this is the first call, the query is sent and answered by the database
\* with the rows it holds at this moment, and the call waits for the answer.
GetSignificantStart ==
    /\ LtmRoom
    /\ patterns' = CacheAfterInit
    /\ initialized' = TRUE
    /\ ltmPending' = Append(ltmPending, [op |-> "getSignificantPatterns",
                                         ids |-> {},
                                         rows |-> SignificantRows(dbPatterns, DefaultLimit)])
    /\ ltmCalls' = ltmCalls + 1
    /\ UNCHANGED <<dbPatterns, now, ltmLast, ltmReturned>>
    /\ UNCHANGED <<wmVars, emoVars, sleepVars, serviceVars>>

\* The answer reaches the suspended getSignificantPatterns() i: every row of
\* the answer is set in the cache under its id.
GetSignificantResumeAt(i) ==
    /\ ltmPending[i].op = "getSignificantPatterns"
    /\ patterns' = LoadedCache(patterns, ltmPending[i].rows)
    /\ ltmLast' = [op |-> "getSignificantPatterns", id |-> 0,
                   outcome |-> "completed", written |-> <<>>]
    /\ ltmPending' = RemoveAt(ltmPending, i)
    /\ UNCHANGED <<initialized, dbPatterns, now, ltmCalls, ltmReturned>>
    /\ UNCHANGED <<wmVars, emoVars, sleepVars, serviceVars>>

GetSignificantResume == \E i \in 1..Len(ltmPending) : GetSignificantResumeAt(i)

\* getSignificantPatterns() on a memory whose flag is not set, up to the await
\* of loadPatterns in ensureInitialized(): the load is sent and answered by
\* the database with the rows it holds at this moment.
GetSignificantLoadStart ==
    /\ LtmRoom
    /\ ~initialized
    /\ ltmPending' = Append(ltmPending, [op |-> "loadPatterns",
                                         ids |-> {},
                                         rows |-> dbPatterns])
    /\ ltmCalls' = ltmCalls + 1
    /\ UNCHANGED <<patterns, initialized, dbPatterns, now, ltmLast, ltmReturned>>
    /\ UNCHANGED <<wmVars, emoVars, sleepVars, serviceVars>>

\* loadPatterns returns to the suspended call i.  When it succeeded every row
\* of the answer is set in the cache, the flag is set, and the call goes on to
\* send its query and wait for that answer; when it failed the call rejects
\* with the flag and the cache as they are.
LoadReturnsAt(i, loaded) ==
    /\ ltmPending[i].op = "loadPatterns"
    /\ IF loaded
       THEN /\ patterns' = LoadedCache(patterns, ltmPending[i].rows)
            /\ initialized' = TRUE
            /\ ltmPending' = [ltmPending EXCEPT
                                 ![i] = [op |-> "getSignificantPatterns",
                                         ids |-> {},
                                         rows |-> SignificantRows(dbPatterns, DefaultLimit)]]
            /\ ltmLast' = ltmLast
       ELSE /\ ltmPending' = RemoveAt(ltmPending, i)
            /\ ltmLast' = [op |-> "getSignificantPatterns", id |-> 0,
                           outcome |-> "rejected", written |-> <<>>]
            /\ UNCHANGED <<patterns, initialized>>
    /\ UNCHANGED <<dbPatterns, now, ltmCalls, ltmReturned>>
    /\ UNCHANGED <<wmVars, emoVars, sleepVars, serviceVars>>

LoadReturns ==
    \E i \in 1..Len(ltmPending) : \E loaded \in BOOLEAN : LoadReturnsAt(i, loaded)

\* The calls with no emotional context whose database operations all succeed.
StorePatternStored ==
    \E id \in PatternIds : \E pattern \in PatternInputs : StoreCall(id, pattern, TRUE, TRUE)

StrengthenPatternUpdated ==
    \E id \in PatternIds : \E amount \in StrengthenAmounts :
        StrengthenCall(id, amount, NoContext, TRUE, TRUE)

FindSimilarPatternsFound ==
    \E related \in SUBSET (DOMAIN dbPatterns) :
        FindSimilarCall(NoContext, related, TRUE, TRUE)

\* 30 days pass.
AdvanceTime ==
    /\ now < MaxTime
    /\ now' = now + 1
    /\ UNCHANGED <<patterns, initialized, dbPatterns, ltmLast, ltmCalls, ltmPending,
                   ltmReturned>>
    /\ UNCHANGED <<wmVars, emoVars, sleepVars, serviceVars>>

\* new SupabaseLongTermMemory(name): an empty cache, nothing loaded yet; the
\* patterns table is empty or holds a row written by an earlier process.
EarlierRows ==
    MapSet(EmptyMap, 1, [facts |-> StoredFacts,
                         weight |-> (3 * Scale) \div 2,
                         emotionalSignature |-> StoredSignature,
                         lastAccessed |-> 0])

InitLongTermWith(tables) ==
    /\ patterns = EmptyMap
    /\ initialized = FALSE
    /\ dbPatterns \in tables
    /\ now = 0
    /\ ltmLast = [op |-> "new", id |-> 0, outcome |-> "completed", written |-> <<>>]
    /\ ltmCalls = 0
    /\ ltmPending = <<>>
    /\ ltmReturned = {}

NextLTM ==
    \/ StorePattern
    \/ StrengthenPattern
    \/ AdvanceTime

NextLTMAll ==
    \/ NextLTM
    \/ FindSimilarPatterns
    \/ ConsolidatePatterns

\* ------------------------------------------- CognitiveSystem: sleep cycle
\* this.sleepCycle = null
NoTimer == 0
\* config.memory.sleepCycleFactCount
SleepCycleFactCount == 10

\* The facts processTextInput puts into the working memory carry an impact;
\* no range is imposed on it.  Reduced for sleep it moves joy by 0.5 up or down.
SleepImpact == [joy |-> 5 * Scale, calm |-> 0, anger |-> 0, sadness |-> 0]
SleepFactInputs ==
    {[id |-> 1, weight |-> 3 * (Scale \div 10), emotionalImpact |-> SleepImpact],
     [id |-> 2, weight |-> 6 * (Scale \div 10),
      emotionalImpact |-> [d \in Dims |-> -SleepImpact[d]]]}

\* The addFact call of processTextInput: the fact is an object made there.
AddSleepFact == AddFactFrom(SleepFactInputs, NewRefs)

\* The test of startSleepCycle with no guard: a timer is always scheduled.
NeverScheduled(handle) == FALSE

\* if (this.sleepCycle) return;
IsScheduled(handle) == handle # NoTimer

\* startSleepCycle(intervalHours): a no-op while a timer is scheduled, else
\* setInterval gives a new handle.
StartSleepCycle ==
    /\ IF IsScheduled(sleepCycle)
       THEN UNCHANGED <<sleepCycle, timers, timersMade>>
       ELSE /\ timersMade < MaxTimers
            /\ timersMade' = timersMade + 1
            /\ sleepCycle' = timersMade'
            /\ timers' = timers \cup {timersMade'}
    /\ UNCHANGED <<sleepRuns, runsStarted, ingestions>>
    /\ UNCHANGED <<wmVars, emoVars, ltmVars, serviceVars>>

\* stopSleepCycle(): clearInterval and null, when a handle is held.
StopSleepCycle ==
    /\ IF sleepCycle # NoTimer
       THEN /\ timers' = timers \ {sleepCycle}
            /\ sleepCycle' = NoTimer
       ELSE UNCHANGED <<sleepCycle, timers>>
    /\ UNCHANGED <<timersMade, sleepRuns, runsStarted, ingestions>>
    /\ UNCHANGED <<wmVars, emoVars, ltmVars, serviceVars>>

\* reduceEmotionalImpact(impact)
ReduceEmotionalImpact(impact) == [d \in Dims |-> Mul(impact[d], EmotionalDecayRate)]

\* processSleepCycle from the point where `rest` of its sample is left, up to
\* its next await on the database or its end.  With a fact left, updateState
\* assigns the clamped sum and the run waits for the insert; with none left,
\* consolidate() runs and the execution is over (its promises resolve with
\* no timer or I/O in between).  `others` are the other suspended runs and
\* `call` the working-memory call made before.
ProcessFrom(rest, others, call) ==
    IF rest = <<>>
    THEN LET res == ConsolidateOp(heap, factMap, facts) IN
         /\ sleepRuns' = others
         /\ heap' = CollectWith(res.heap, facts, res.factMap, NoHist, sleepRuns')
         /\ factMap' = res.factMap
         /\ wmLast' = [op |-> "consolidate", result |-> <<>>]
         /\ wmHist' = NoHist
         /\ UNCHANGED <<emState, emExpected>>
    ELSE /\ emState' = UpdateStateOp(emState,
                           ReduceEmotionalImpact(heap[Head(rest)].emotionalImpact))
         /\ emExpected' = AppliedInOrder(emExpected,
                              ReduceEmotionalImpact(heap[Head(rest)].emotionalImpact))
         /\ sleepRuns' = Append(others, [rest |-> Tail(rest), storing |-> emState'])
         /\ heap' = CollectWith(heap, facts, factMap, wmHist, sleepRuns')
         /\ wmLast' = call
         /\ UNCHANGED <<factMap, wmHist>>

\* The interval timer fires: the callback starts processSleepCycle, which
\* takes its sample and goes on to the first await on the database.
TimerTick ==
    /\ runsStarted < MaxRuns
    /\ \E t \in timers :
         LET sample == SampleByWeight(heap, facts, SleepCycleFactCount) IN
         ProcessFrom(sample, sleepRuns,
                     [op |-> "getSampleByWeight",
                      result |-> <<SleepCycleFactCount>> \o sample])
    /\ runsStarted' = runsStarted + 1
    /\ UNCHANGED <<facts, metrics, wmCapacity, wmStrategy, pendingAdds>>
    /\ UNCHANGED <<emRow, svcState, svcRow, svcCalls, emoLast, emoCalls>>
    /\ UNCHANGED <<sleepCycle, timers, timersMade, ingestions>>
    /\ UNCHANGED <<ltmVars, serviceVars>>

\* The insert a suspended run waits for returns, and the run goes on.
StoreReturns ==
    /\ \E i \in 1..Len(sleepRuns) : \E inserted \in BOOLEAN :
         /\ emRow' = StoreOp(emRow, sleepRuns[i].storing, inserted)
         /\ ProcessFrom(sleepRuns[i].rest, RemoveAt(sleepRuns, i), wmLast)
    /\ UNCHANGED <<facts, metrics, wmCapacity, wmStrategy, pendingAdds>>
    /\ UNCHANGED <<svcState, svcRow, svcCalls, emoLast, emoCalls>>
    /\ UNCHANGED <<sleepCycle, timers, timersMade, runsStarted, ingestions>>
    /\ UNCHANGED <<ltmVars, serviceVars>>

\* The updateState call that run i of processSleepCycle awaits rejects (the
\* insert throws): nothing in processSleepCycle or in the timer callback
\* catches it, so the run ends there, rejected, with the rest of its sample
\* not applied and consolidate() not called.
StoreRejectsAt(i) ==
    /\ sleepRuns' = RemoveAt(sleepRuns, i)
    /\ heap' = CollectWith(heap, facts, factMap, wmHist, sleepRuns')
    /\ UNCHANGED <<facts, factMap, metrics, wmCapacity, wmStrategy, pendingAdds, wmLast, wmHist>>
    /\ UNCHANGED emoVars
    /\ UNCHANGED <<sleepCycle, timers, timersMade, runsStarted, ingestions>>
    /\ UNCHANGED <<ltmVars, serviceVars>>

StoreRejects == \E i \in 1..Len(sleepRuns) : StoreRejectsAt(i)

\* calculateFactWeight(impact): Math.min(1, the norm of the impact)
CalculateFactWeight(impact) == Min(Scale, CalculateIntensity(impact))

\* The facts the extraction gives to processTextInput: id and emotionalImpact.
IngestInputs ==
    {[id |-> f.id, emotionalImpact |-> f.emotionalImpact] : f \in SleepFactInputs}

\* processTextInput(content) up to its await of updateState: the fact is
\* made with weight 0 and updateState(fact.emotionalImpact) assigns the
\* clamped sum; the call then waits for the insert.  (The reads before, of
\* the sensory context, the working memory and the patterns, change nothing.)
IngestUpdateState ==
    /\ metrics.hits + metrics.misses + Len(ingestions) < MaxWmOps
    /\ \E f \in IngestInputs :
         /\ emState' = UpdateStateOp(emState, f.emotionalImpact)
         /\ emExpected' = AppliedInOrder(emExpected, f.emotionalImpact)
         /\ ingestions' = Append(ingestions,
                               [fact |-> [id |-> f.id, weight |-> 0,
                                          emotionalImpact |-> f.emotionalImpact],
                                storing |-> emState'])
    /\ UNCHANGED <<emRow, svcState, svcRow, svcCalls, emoLast, emoCalls>>
    /\ UNCHANGED <<sleepCycle, timers, timersMade, sleepRuns, runsStarted>>
    /\ UNCHANGED <<wmVars, ltmVars, serviceVars>>

\* The insert returns and processTextInput goes on: fact.weight is set from
\* the impact and the fact, a new object, is added to the working memory.
\* (What follows in processTextInput concerns the long-term memory, the
\* sensory context and the insights.)
IngestAddFact ==
    /\ FreeRefs # {}
    /\ \E i \in 1..Len(ingestions) : \E inserted \in BOOLEAN :
         LET made == ingestions[i].fact
             fact == [made EXCEPT !.weight = CalculateFactWeight(made.emotionalImpact)]
             r == NewRef
             h == ArgHeap(r, fact)
             res == AddFactOp(h, facts, factMap, metrics, wmCapacity, wmStrategy, r)
             hist == IF wmHist.pure /\ Len(wmHist.adds) <= wmCapacity
                     THEN [wmHist EXCEPT !.adds =
                               Append(@, [ref |-> r, weight |-> h[r].weight])]
                     ELSE NoHist
         IN /\ emRow' = StoreOp(emRow, ingestions[i].storing, inserted)
            /\ ingestions' = RemoveAt(ingestions, i)
            /\ heap' = Collect(h, res.facts, res.factMap, hist)
            /\ facts' = res.facts
            /\ factMap' = res.factMap
            /\ metrics' = res.metrics
            /\ wmLast' = [op |-> "addFact", result |-> <<>>]
            /\ wmHist' = hist
    /\ UNCHANGED <<wmCapacity, wmStrategy, pendingAdds>>
    /\ UNCHANGED <<emState, svcState, svcRow, svcCalls, emoLast, emoCalls, emExpected>>
    /\ UNCHANGED <<sleepCycle, timers, timersMade, sleepRuns, runsStarted>>
    /\ UNCHANGED <<ltmVars, serviceVars>>

\* config.memory.patternThreshold: 0.6
PatternThreshold == 6 * (Scale \div 10)

\* `fact_${Date.now()}_${Math.random()...}`: the id storeFact gives to the
\* row it inserts, made anew and never the id of the fact passed.  The ids
\* of rows are taken as negative numbers, the uuids of facts being FactIds.
NewFactRowId(table) == -(Cardinality(DOMAIN table) + 1)

\* storeFact(fact): the row inserted, the fact under the id of the row
StoredFact(table, fact) == [fact EXCEPT !.id = NewFactRowId(table)]

\* retrieve(id) / getFact(id): .from('facts').select('*').eq('id', id);
\* <<>> stands for null
RetrieveStored(table, id) == IF id \in DOMAIN table THEN <<table[id]>> ELSE <<>>

\* The facts processTextInput has after calculateFactWeight: a uuid, an
\* emotional impact and the weight computed from it (0.5 and 1).
TextFacts ==
    {[id |-> x, weight |-> CalculateFactWeight(q), emotionalImpact |-> q] :
        x \in FactIds, q \in {JoyImpact, SleepImpact}}

\* processTextInput from longTermMemory.store(fact) to the pattern made or
\* strengthened: the fact is inserted in the facts table; findSimilarFacts
\* returns the rows of the ids similarFacts; the patterns found are cached
\* and strengthened by the weight of the fact, or, none found, a fact
\* heavier than patternThreshold gets a pattern of facts [fact.id].  loaded
\* and stored say whether loadPatterns and the insert succeed; the later
\* database calls succeed.
TextInputStore(fact, similarFacts, loaded, stored) ==
    /\ LtmRoom
    /\ IF ~initialized /\ ~loaded
       THEN /\ LtmRejected("processTextInput", fact.id)
            /\ dbFacts' = dbFacts
       ELSE IF ~stored
       THEN /\ initialized' = TRUE
            /\ patterns' = CacheAfterInit
            /\ ltmLast' = [op |-> "processTextInput", id |-> fact.id,
                           outcome |-> "rejected", written |-> <<>>]
            /\ UNCHANGED <<dbPatterns, dbFacts>>
       ELSE LET table == MapSet(dbFacts, NewFactRowId(dbFacts), StoredFact(dbFacts, fact))
                st == [cache |-> CacheAfterInit, db |-> dbPatterns]
                related == FindPatternsWithFacts(dbPatterns, similarFacts)
                found == LoadedCache(st.cache, [x \in related |-> dbPatterns[x]])
                created == [facts |-> {fact.id}, weight |-> fact.weight,
                            emotionalSignature |-> fact.emotionalImpact,
                            lastAccessed |-> now]
            IN /\ similarFacts \subseteq DOMAIN table
               /\ initialized' = TRUE
               /\ dbFacts' = table
               /\ IF related # {}
                  THEN /\ patterns' = [x \in DOMAIN found |->
                                          IF x \in related
                                          THEN StrengthenOp(found[x], fact.weight,
                                                            NoContext, now)
                                          ELSE found[x]]
                       /\ dbPatterns' = [x \in DOMAIN dbPatterns |->
                                            IF x \in related
                                            THEN StrengthenOp(found[x], fact.weight,
                                                              NoContext, now)
                                            ELSE dbPatterns[x]]
                  ELSE IF fact.weight > PatternThreshold
                  THEN /\ patterns' = MapSet(st.cache, NewStoredPatternId(st), created)
                       /\ dbPatterns' = MapSet(dbPatterns, NewStoredPatternId(st), created)
                  ELSE /\ patterns' = st.cache
                       /\ dbPatterns' = dbPatterns
               /\ ltmLast' = [op |-> "processTextInput", id |-> fact.id,
                              outcome |-> "completed", written |-> <<>>]
    /\ ltmCalls' = ltmCalls + 1
    /\ UNCHANGED <<now, ltmPending, ltmReturned>>
    /\ UNCHANGED <<activePatterns, patLast, patCalls, processedInsights,
                   insightMemory, insLast>>
    /\ UNCHANGED <<wmVars, emoVars, sleepVars>>

TextInputStores ==
    \E fact \in TextFacts : \E loaded, stored \in BOOLEAN :
    \E similarFacts \in SUBSET {-x : x \in 1..(Cardinality(DOMAIN dbFacts) + 1)} :
        TextInputStore(fact, similarFacts, loaded, stored)

\* new CognitiveSystem(): this.sleepCycle = null
InitSleep ==
    /\ sleepCycle = NoTimer
    /\ timers = {}
    /\ timersMade = 0
    /\ sleepRuns = <<>>
    /\ runsStarted = 0
    /\ ingestions = <<>>

NextSleep ==
    \/ AddSleepFact
    \/ StartSleepCycle
    \/ StopSleepCycle
    \/ TimerTick
    \/ StoreReturns

NextSleepAll ==
    \/ NextSleep
    \/ StoreRejects

\* synthesizeInsights(result, iterationCount = 3)
IterationCount == 3

\* generateInsight: weight: 0.5
InsightWeight == Scale \div 2

\* `insight_${Date.now()}_${Math.random()...}`: the ids of the facts made
\* from insights, taken as the numbers after the uuids of FactIds.
InsightIds ==
    (Cardinality(FactIds) + 1)..(Cardinality(FactIds) + MaxInsightCalls * IterationCount)

\* --------------------------------------------------------- PatternService
\* The facts the callers pass and the similarity search returns, by id:
\* fact 1 of weight 1 and impact (1, -1, 1, -1), fact 2 of weight 0.3 and
\* impact (0.5, 0, 0, 0).
ServiceFacts ==
    [id \in FactIds \cup InsightIds |->
        IF id = 1
        THEN [id |-> 1, weight |-> Scale,
              emotionalImpact |-> [joy |-> Scale, calm |-> -Scale,
                                   anger |-> Scale, sadness |-> -Scale]]
        ELSE IF id \in FactIds
        THEN [id |-> id, weight |-> 3 * (Scale \div 10), emotionalImpact |-> JoyImpact]
        ELSE [id |-> id, weight |-> InsightWeight, emotionalImpact |-> JoyImpact]]

\* The lists findSimilarFacts returns: up to MaxSimilar facts, the fact passed
\* to the call and repeated facts included.
SimilarLists == UNION {[1..n -> FactIds] : n \in 0..MaxSimilar}

\* facts.reduce(...): the sums of the weights, of the emotional intensities
\* and of one component of the impacts over the facts of the ids in the list.
RECURSIVE SumWeights(_)
SumWeights(ids) ==
    IF ids = <<>> THEN 0 ELSE ServiceFacts[Head(ids)].weight + SumWeights(Tail(ids))

RECURSIVE SumIntensities(_)
SumIntensities(ids) ==
    IF ids = <<>> THEN 0
    ELSE CalculateIntensity(ServiceFacts[Head(ids)].emotionalImpact)
         + SumIntensities(Tail(ids))

RECURSIVE SumComponent(_, _)
SumComponent(ids, d) ==
    IF ids = <<>> THEN 0
    ELSE ServiceFacts[Head(ids)].emotionalImpact[d] + SumComponent(Tail(ids), d)

\* calculatePatternWeight(facts): the mean of the average weight and the
\* average emotional intensity.
CalculatePatternWeight(ids) ==
    LET avgWeight == SumWeights(ids) \div Len(ids)
        avgIntensity == SumIntensities(ids) \div Len(ids)
    IN (avgWeight + avgIntensity) \div 2

\* calculateAverageEmotionalSignature(facts): the sum of each component over
\* the list, divided by the length of the list.
CalculateAverageEmotionalSignature(ids) ==
    [d \in Dims |->
        LET sum == SumComponent(ids, d)
        IN Sign(sum) * (Abs(sum) \div Len(ids))]

\* Array.from(new Set(list)): the elements in the order of their first
\* occurrence.
RECURSIVE Distinct(_)
Distinct(list) ==
    IF list = <<>> THEN <<>>
    ELSE LET front == Distinct(SubSeq(list, 1, Len(list) - 1))
             last == list[Len(list)]
         IN IF last \in Range(front) THEN front ELSE Append(front, last)

\* Math.random().toString(36).substring(7), taken as an id that no active
\* pattern has: the ids are numbered in the order of their creation.
NewPatternId(active) == Cardinality(DOMAIN active) + 1

\* createPattern(facts, emotionalSignature): the pattern made and set.
CreatedPattern(ids) ==
    [facts |-> ids,
     weight |-> CalculatePatternWeight(ids),
     emotionalSignature |-> CalculateAverageEmotionalSignature(ids),
     lastAccessed |-> now]

\* An update that keeps only the fact ids newly supplied.
UpdatedPatternNewFactsOnly(pattern, ids) ==
    [facts |-> Distinct(ids),
     weight |-> pattern.weight + WeightIncrement,
     emotionalSignature |-> CalculateAverageEmotionalSignature(ids),
     lastAccessed |-> now]

\* updatePattern(pattern, newFacts): the pattern that replaces it.
UpdatedPattern(pattern, ids) ==
    [facts |-> Distinct(pattern.facts \o ids),
     weight |-> pattern.weight + WeightIncrement,
     emotionalSignature |-> CalculateAverageEmotionalSignature(ids),
     lastAccessed |-> now]

\* The active patterns that hold the id of the fact or of a similar fact.
ExistingPatterns(active, ids) ==
    {x \in DOMAIN active : Range(active[x].facts) \cap Range(ids) # {}}

\* Array.from(values()).find(...): the first of them in insertion order.
ExistingPattern(active, ids) ==
    CHOOSE x \in ExistingPatterns(active, ids) :
        \A y \in ExistingPatterns(active, ids) : x <= y

\* findOrCreatePatterns(fact, similarFacts): the id of the pattern updated or
\* created, 0 with fewer than two similar facts.
FindOrCreateId(active, fact, similarFacts) ==
    IF Len(similarFacts) < 2 THEN 0
    ELSE IF ExistingPatterns(active, <<fact>> \o similarFacts) # {}
         THEN ExistingPattern(active, <<fact>> \o similarFacts)
         ELSE NewPatternId(active)

PatRoom == patCalls < MaxPatCalls

\* PatternService.processFact(fact, context).  found and crossFound say
\* whether findSimilarFacts and findCrossContextPatterns succeed: the first
\* throws before the patterns are touched, the second after.
ProcessPatternFact(fact, similarFacts, found, crossFound) ==
    /\ PatRoom
    /\ IF ~found
       THEN /\ patLast' = [op |-> "processFact", outcome |-> "rejected", patterns |-> <<>>]
            /\ UNCHANGED activePatterns
       ELSE LET supplied == <<fact>> \o similarFacts
                id == FindOrCreateId(activePatterns, fact, similarFacts)
                pattern == IF id \in DOMAIN activePatterns
                           THEN UpdatedPattern(activePatterns[id], supplied)
                           ELSE CreatedPattern(supplied)
            IN
            /\ activePatterns' = IF id = 0 THEN activePatterns
                                 ELSE MapSet(activePatterns, id, pattern)
            /\ patLast' = IF crossFound
                          THEN [op |-> "processFact", outcome |-> "completed",
                                patterns |-> IF id = 0 THEN <<>> ELSE <<pattern>>]
                          ELSE [op |-> "processFact", outcome |-> "rejected",
                                patterns |-> <<>>]
    /\ patCalls' = patCalls + 1
    /\ UNCHANGED <<wmVars, emoVars, ltmVars, sleepVars, insightVars>>

PatternProcessFact ==
    \E fact \in FactIds : \E similarFacts \in SimilarLists :
    \E found, crossFound \in BOOLEAN :
        ProcessPatternFact(fact, similarFacts, found, crossFound)

\* ---------------------------------------------------------- InsightService
\* The texts generateText returns and the content of the fact synthesized
\* from: a text, in upper case or not, with blanks around it or not.
Contents ==
    {[text |-> "a", upper |-> FALSE, padded |-> FALSE],
     [text |-> "a", upper |-> TRUE, padded |-> TRUE],
     [text |-> "b", upper |-> FALSE, padded |-> FALSE]}

\* content.toLowerCase().trim()
Normalized(content) == [content EXCEPT !.upper = FALSE, !.padded = FALSE]

\* The id of the next fact made from an insight: every one made so far is in
\* the working memory of the service.
NewInsightId(memory) == Cardinality(FactIds) + Len(memory) + 1

\* patternService.processFact(fact, source) on the active patterns, when
\* findSimilarFacts returns similarFacts.
ProcessedPatterns(active, fact, similarFacts) ==
    LET supplied == <<fact>> \o similarFacts
        id == FindOrCreateId(active, fact, similarFacts)
    IN IF id = 0 THEN active
       ELSE MapSet(active, id, IF id \in DOMAIN active
                               THEN UpdatedPattern(active[id], supplied)
                               ELSE CreatedPattern(supplied))

\* One turn of the loop of synthesizeInsights when generateText returns
\* content: generateInsight makes the fact, stores it in the working memory
\* and in the long-term memory and passes it to the pattern service; back in
\* the loop, the insight is kept when its normalized content is new.
SynthesisTurn(st, content, similarFacts) ==
    LET fact == [id |-> NewInsightId(st.memory), content |-> content,
                 weight |-> InsightWeight, emotionalImpact |-> JoyImpact]
        isNew == Normalized(content) \notin st.processed
    IN [memory |-> Append(st.memory, fact),
        table |-> MapSet(st.table, NewFactRowId(st.table), StoredFact(st.table, fact)),
        active |-> ProcessedPatterns(st.active, fact.id, similarFacts),
        processed |-> st.processed \cup {Normalized(content)},
        insights |-> IF isNew THEN Append(st.insights, fact.id) ELSE st.insights]

RECURSIVE SynthesisTurns(_, _, _)
SynthesisTurns(st, contents, similarFacts) ==
    IF contents = <<>> THEN st
    ELSE SynthesisTurns(SynthesisTurn(st, Head(contents), similarFacts),
                        Tail(contents), similarFacts)

\* workingMemory.consolidate(): every weight divided by the largest
Consolidated(memory) ==
    LET weights == {memory[i].weight : i \in 1..Len(memory)}
        maxWeight == CHOOSE w \in weights : \A v \in weights : v <= w
    IN IF memory # <<>> /\ maxWeight > 0
       THEN [i \in 1..Len(memory) |-> [memory[i] EXCEPT !.weight = Div(@, maxWeight)]]
       ELSE memory

\* synthesizeInsights(result), run to completion: original is the content of
\* result.fact, contents the texts the iterations generate and similarFacts
\* what findSimilarFacts returns to the pattern service.  The first
\* failAfter iterations succeed and the generateText of the next one, if
\* there is one, throws: the call then rejects with the iterations before
\* it done.  The working memory of the service never gets full here.
SynthesizeInsightsCall(original, contents, similarFacts, failAfter) ==
    /\ Len(insightMemory) + IterationCount <= MaxInsightCalls * IterationCount
    /\ Len(contents) = IterationCount
    /\ LET st == SynthesisTurns([memory |-> insightMemory, table |-> dbFacts,
                                 active |-> activePatterns,
                                 processed |-> processedInsights
                                                  \cup {Normalized(original)},
                                 insights |-> <<>>],
                                SubSeq(contents, 1, failAfter), similarFacts)
       IN /\ insightMemory' = IF failAfter = Len(contents)
                               THEN Consolidated(st.memory) ELSE st.memory
          /\ dbFacts' = st.table
          /\ activePatterns' = st.active
          /\ processedInsights' = st.processed
          /\ insLast' = IF failAfter = Len(contents)
                        THEN [op |-> "synthesizeInsights", outcome |-> "completed",
                              insights |-> st.insights]
                        ELSE [op |-> "synthesizeInsights", outcome |-> "rejected",
                              insights |-> <<>>]
    /\ UNCHANGED <<patLast, patCalls>>
    /\ UNCHANGED <<wmVars, emoVars, ltmVars, sleepVars>>

SynthesizeInsights ==
    \E original \in Contents : \E contents \in [1..IterationCount -> Contents] :
    \E similarFacts \in {<<>>} \cup {[i \in 1..Cardinality(FactIds) |-> i]} :
    \E failAfter \in 0..IterationCount :
        SynthesizeInsightsCall(original, contents, similarFacts, failAfter)

\* new PatternService(dbService) and new InsightService(), over a database
\* with an empty facts table
InitServices ==
    /\ activePatterns = EmptyMap
    /\ patLast = [op |-> "new", outcome |-> "completed", patterns |-> <<>>]
    /\ patCalls = 0
    /\ dbFacts = EmptyMap
    /\ processedInsights = {}
    /\ insightMemory = <<>>
    /\ insLast = [op |-> "new", outcome |-> "completed", insights |-> <<>>]

\* ---------------------------------------------------------- specifications
InitWM ==
    /\ InitWMWith(0..MaxCapacity, {"lru", "weight"})
    /\ InitEmotional
    /\ InitLongTermWith({EmptyMap})
    /\ InitSleep
    /\ InitServices

\* The working memory under its insertions, replacements, deletions,
\* sampling and consolidation.
NextWM ==
    \/ AddFact
    \/ Update
    \/ Delete
    \/ Clear
    \/ GetSampleByWeight
    \/ Consolidate

SpecWM == InitWM /\ [][NextWM]_vars

\* The same with the lookups and the direct evictions.
NextWMAll ==
    \/ NextWM
    \/ Retrieve
    \/ EvictOldest
    \/ EvictByWeight

SpecWMAll == InitWM /\ [][NextWMAll]_vars

\* A working memory that evicts by weight, large enough for a buffer of which
\* two facts remain after an eviction, under addFact and evictByWeight().
EvictCapacity == MaxCapacity + 1

InitEvict ==
    /\ InitWMWith({EvictCapacity}, {"weight"})
    /\ InitEmotional
    /\ InitLongTermWith({EmptyMap})
    /\ InitSleep
    /\ InitServices

NextEvict ==
    \/ AddFact
    \/ EvictByWeight

SpecEvict == InitEvict /\ [][NextEvict]_vars

\* A working memory of capacity 1 or more whose addFact calls are started
\* without waiting for one another.
InitOverlap ==
    /\ InitWMWith(1..MaxCapacity, {"lru", "weight"})
    /\ InitEmotional
    /\ InitLongTermWith({EmptyMap})
    /\ InitSleep
    /\ InitServices

NextOverlap ==
    \/ AddFactStart
    \/ AddFactResume

SpecOverlap == InitOverlap /\ [][NextOverlap]_vars

\* The same as SpecWM with store(item) and with fact objects that lack a field.
NextStore ==
    \/ NextWM
    \/ Store
    \/ AddMalformedFact

SpecStore == InitWM /\ [][NextStore]_vars

\* The emotional memory and the emotional service under their updates and
\* decays.
InitEmo ==
    /\ InitWMWith({MaxCapacity}, {"lru"})
    /\ InitEmotional
    /\ InitLongTermWith({EmptyMap})
    /\ InitSleep
    /\ InitServices

SpecEmo == InitEmo /\ [][NextEmo]_vars

\* The long-term memory under stores and strengthenings as time passes.
InitLTM ==
    /\ InitWMWith({MaxCapacity}, {"lru"})
    /\ InitEmotional
    /\ InitLongTermWith({EmptyMap, EarlierRows})
    /\ InitSleep
    /\ InitServices

SpecLTM == InitLTM /\ [][NextLTM]_vars

\* The long-term memory under stores and strengthenings by 0.3.
NextStrengthen ==
    \/ StorePattern
    \/ StrengthenByScenarioAmount
    \/ AdvanceTime

SpecStrengthen == InitLTM /\ [][NextStrengthen]_vars

\* The long-term memory over a table that holds a pattern of weight 0.1, with
\* consolidate() calls that strengthenPattern calls overtake while they wait
\* for the database.
WeakRows ==
    MapSet(EmptyMap, 1, [facts |-> StoredFacts,
                         weight |-> Scale \div 10,
                         emotionalSignature |-> StoredSignature,
                         lastAccessed |-> 0])

InitPrune ==
    /\ InitWMWith({MaxCapacity}, {"lru"})
    /\ InitEmotional
    /\ InitLongTermWith({WeakRows})
    /\ InitSleep
    /\ InitServices

NextPrune ==
    \/ StrengthenPattern
    \/ ConsolidateStart
    \/ ConsolidateResume

SpecPrune == InitPrune /\ [][NextPrune]_vars

\* The emotional service with processFact calls that start while earlier ones
\* wait for the store.
NextSvcOverlap ==
    \/ ProcessFactStart
    \/ ProcessFactResume

SpecSvcOverlap == InitEmo /\ [][NextSvcOverlap]_vars

\* The long-term memory with getSignificantPatterns() calls made before the
\* patterns are loaded, each waiting for its load and then for its query
\* while other calls are made.
NextLoad ==
    \/ GetSignificantLoadStart
    \/ LoadReturns
    \/ GetSignificantResume
    \/ StorePattern

SpecLoad == InitLTM /\ [][NextLoad]_vars

\* The long-term memory over a table of two patterns, with similarity searches.
InitSimilar ==
    /\ InitWMWith({MaxCapacity}, {"lru"})
    /\ InitEmotional
    /\ InitLongTermWith({EmptyMap, FactRows})
    /\ InitSleep
    /\ InitServices

NextSimilar ==
    \/ FindSimilarSearch
    \/ StorePattern
    \/ AdvanceTime

SpecSimilar == InitSimilar /\ [][NextSimilar]_vars

\* The long-term memory over a table of two patterns or none, under
\* consolidateMemory.
NextMemory ==
    \/ ConsolidateMemory
    \/ AdvanceTime

SpecMemory == InitSimilar /\ [][NextMemory]_vars

\* The text inputs stored and given their patterns, over empty tables.
InitFacts ==
    /\ InitWMWith({MaxCapacity}, {"lru"})
    /\ InitEmotional
    /\ InitLongTermWith({EmptyMap})
    /\ InitSleep
    /\ InitServices

NextFacts ==
    \/ TextInputStores
    \/ AdvanceTime

SpecFacts == InitFacts /\ [][NextFacts]_vars

\* The long-term memory whose database never fails, called with no emotional
\* context, with getSignificantPatterns() calls that other calls overtake
\* while they wait for their answer.
NextCoherence ==
    \/ StorePatternStored
    \/ StrengthenPatternUpdated
    \/ FindSimilarPatternsFound
    \/ GetSignificantStart
    \/ GetSignificantResume
    \/ AdvanceTime

SpecCoherence == InitLTM /\ [][NextCoherence]_vars

\* The long-term memory with its searches and consolidations as well.
SpecLTMAll == InitLTM /\ [][NextLTMAll]_vars

\* The cognitive system: facts arrive, the sleep timer is started and
\* stopped, fires, and the runs it starts go on as their inserts return.
InitSystem ==
    /\ InitWMWith({MaxCapacity}, {"lru"})
    /\ InitEmotional
    /\ InitLongTermWith({EmptyMap})
    /\ InitSleep
    /\ InitServices

SpecSleep == InitSystem /\ [][NextSleep]_vars

\* The same, with inserts that throw as well.
SpecSleepAll == InitSystem /\ [][NextSleepAll]_vars

\* The cognitive system after new CognitiveSystem() and startSleepCycle(),
\* with ingestion: processTextInput calls and the runs of the sleep routine
\* interleave at their awaits.
InitSleeping ==
    /\ InitWMWith({MaxCapacity}, {"lru"})
    /\ InitEmotional
    /\ InitLongTermWith({EmptyMap})
    /\ InitServices
    /\ sleepCycle = 1
    /\ timers = {1}
    /\ timersMade = 1
    /\ sleepRuns = <<>>
    /\ runsStarted = 0
    /\ ingestions = <<>>

NextIngest ==
    \/ IngestUpdateState
    \/ IngestAddFact
    \/ TimerTick
    \/ StoreReturns

SpecIngest == InitSleeping /\ [][NextIngest]_vars

\* The pattern service under processFact calls.
NextPattern == PatternProcessFact

SpecPattern == InitSystem /\ [][NextPattern]_vars

\* The InsightService under synthesizeInsights calls.
NextInsight == SynthesizeInsights

SpecInsight == InitSystem /\ [][NextInsight]_vars

\* ===================================================================
\* Properties of the working memory
\* ===================================================================
\* The facts passed to addFact so far, and their weights when passed.
AddedRefs == [i \in 1..Len(wmHist.adds) |-> wmHist.adds[i].ref]
AddedWeights == [i \in 1..Len(wmHist.adds) |-> wmHist.adds[i].weight]

\* Since construction exactly capacity + 1 addFact calls and no other
\* mutating call have completed.
InsertedOneMoreThanCapacity ==
    /\ wmHist.pure
    /\ Len(wmHist.adds) = wmCapacity + 1
    /\ wmLast.op = "addFact"

\* C1. Capacity invariant: after every addFact call of a sequence of
\* sequential addFact calls, for every configured capacity and either
\* strategy, getFacts() holds at most capacity facts.
C1_CapacityInvariant ==
    (wmHist.pure /\ wmLast.op = "addFact") => Len(facts) <= wmCapacity

\* The bound the code keeps for every capacity: the buffer holds at most
\* capacity facts, or one fact when the capacity is 0.
C1_AtMostCapacityOrOne ==
    (wmHist.pure /\ wmLast.op = "addFact") => Len(facts) <= Max(wmCapacity, 1)

\* C2. Recency eviction: from an empty 'lru' memory, after capacity + 1
\* addFact calls with distinct ids the first-inserted fact is absent and
\* getFacts() is the last capacity inserted facts in insertion order.
DistinctIds(refs) ==
    \A i, j \in 1..Len(refs) : i # j => heap[refs[i]].id # heap[refs[j]].id

C2_RecencyEviction ==
    (InsertedOneMoreThanCapacity /\ wmStrategy = "lru" /\ DistinctIds(AddedRefs))
        => /\ facts = SubSeq(AddedRefs, 2, wmCapacity + 1)
           /\ AddedRefs[1] \notin Range(facts)

\* What holds of the code for every capacity >= 1.
C2_RecencyEvictionPositiveCapacity ==
    (InsertedOneMoreThanCapacity /\ wmStrategy = "lru" /\ wmCapacity >= 1
        /\ DistinctIds(AddedRefs))
        => /\ facts = SubSeq(AddedRefs, 2, wmCapacity + 1)
           /\ AddedRefs[1] \notin Range(facts)

\* The earliest position among 1..n of ws that holds the least weight there.
EarliestMinimum(ws, n) ==
    CHOOSE i \in 1..n :
        /\ \A j \in 1..n : ws[i] <= ws[j]
        /\ \A j \in 1..(i - 1) : ws[j] > ws[i]

\* C3 as stated. Weight eviction: from an empty 'weight' memory, after
\* capacity + 1 addFact calls the fact of least weight among all capacity + 1
\* inserted facts, the last one included (the earliest on a tie), is absent
\* from getFacts().
C3_GlobalMinimumAbsent ==
    (InsertedOneMoreThanCapacity /\ wmStrategy = "weight")
        => AddedRefs[EarliestMinimum(AddedWeights, wmCapacity + 1)] \notin Range(facts)

\* C3 as amended. The fact evicted is the one of least weight among the
\* first capacity inserted facts (the earliest on a tie); the last-inserted
\* fact is never the one evicted: getFacts() is the first capacity inserted
\* facts without that one, followed by the last-inserted fact.
C3_MinimumOfBufferedEvicted ==
    (InsertedOneMoreThanCapacity /\ wmStrategy = "weight")
        => facts =
             (IF wmCapacity = 0 THEN <<>>
              ELSE RemoveAt(SubSeq(AddedRefs, 1, wmCapacity),
                            EarliestMinimum(AddedWeights, wmCapacity)))
             \o <<AddedRefs[wmCapacity + 1]>>

\* The case C3 is about has happened: a full buffer of distinct facts with a
\* tie for the least weight took one more fact, lighter than all of them.
C3_Witness ==
    /\ InsertedOneMoreThanCapacity
    /\ wmStrategy = "weight"
    /\ wmCapacity >= 2
    /\ Cardinality(Range(AddedRefs)) = wmCapacity + 1
    /\ AddedWeights[1] = AddedWeights[2]
    /\ \A i \in 1..wmCapacity : AddedWeights[i] > AddedWeights[wmCapacity + 1]
    /\ AddedRefs[wmCapacity + 1] \in Range(facts)
    /\ AddedRefs[1] \notin Range(facts)

\* C6. Idempotent consolidate: a consolidate() that directly follows a
\* consolidate() leaves the weight of every fact as the first one left it.
C6_ConsolidateTwice ==
    [][(Consolidate /\ wmLast.op = "consolidate")
          => \A r \in Range(facts) : heap'[r].weight = heap[r].weight]_vars

\* No fact object stands at two positions of the buffer.
NoFactBufferedTwice == \A i, j \in 1..Len(facts) : i # j => facts[i] # facts[j]

\* What holds of the code while no fact object is buffered twice.
C6_ConsolidateTwiceDistinctFacts ==
    [][(Consolidate /\ wmLast.op = "consolidate" /\ NoFactBufferedTwice)
          => \A r \in Range(facts) : heap'[r].weight = heap[r].weight]_vars

\* The greatest weight in the buffer, stated on its own.
IsGreatestWeight(h, fs, w) ==
    /\ \E i \in 1..Len(fs) : h[fs[i]].weight = w
    /\ \A i \in 1..Len(fs) : h[fs[i]].weight <= w

\* consolidate() seen as a rescaling of the buffer from h to hNew.
Rescaled(h, hNew, fs, fsNew) ==
    /\ fsNew = fs
    /\ \A r \in Range(fs) : hNew[r].id = h[r].id
    /\ IF \E r \in Range(fs) : h[r].weight > 0
       THEN LET w == CHOOSE w \in {h[r].weight : r \in Range(fs)} :
                         IsGreatestWeight(h, fs, w)
            IN /\ \A r \in Range(fs) : hNew[r].weight = Div(h[r].weight, w)
               /\ IsGreatestWeight(hNew, fs, Scale)
       ELSE \A r \in Range(fs) : hNew[r].weight = h[r].weight

\* C7. consolidate() is a rescaling, not a pruning: every weight is divided
\* by the greatest weight, which leaves the heaviest fact at exactly 1;
\* nothing changes when the greatest weight is 0 or the buffer is empty; the
\* number, identity and order of the facts never change.
C7_ConsolidateRescales ==
    [][Consolidate => Rescaled(heap, heap', facts, facts')]_vars

\* What holds of the code while no fact object is buffered twice.
C7_ConsolidateRescalesDistinctFacts ==
    [][(Consolidate /\ NoFactBufferedTwice)
          => Rescaled(heap, heap', facts, facts')]_vars

\* Position i of the buffer comes before position j in the sample order:
\* a greater weight first, the buffer order among equal weights.
ComesBefore(h, fs, i, j) ==
    \/ h[fs[i]].weight > h[fs[j]].weight
    \/ (h[fs[i]].weight = h[fs[j]].weight /\ i < j)

\* The position of the buffer whose fact is the k-th of the sample order.
PositionOfRank(h, fs, k) ==
    CHOOSE i \in 1..Len(fs) :
        Cardinality({j \in 1..Len(fs) : ComesBefore(h, fs, j, i)}) = k - 1

ExpectedSample(h, fs, n) ==
    [k \in 1..Min(n, Len(fs)) |-> fs[PositionOfRank(h, fs, k)]]

\* C8. getSampleByWeight(n), n >= 0, returns the min(n, size) heaviest facts
\* in descending weight order, equal weights in buffer order, all facts when
\* n >= size, and leaves the buffer contents and order as they were.
C8_SampleByWeight ==
    [][GetSampleByWeight
          => /\ Tail(wmLast'.result) = ExpectedSample(heap, facts, Head(wmLast'.result))
             /\ Len(Tail(wmLast'.result)) = Min(Head(wmLast'.result), Len(facts))
             /\ facts' = facts
             /\ heap' = heap
             /\ factMap' = factMap]_vars

\* A sample was taken that had to cut the buffer and to order a tie: two
\* distinct facts of equal weight behind a lighter fact, fewer asked for
\* than are buffered.
C8_Witness ==
    /\ wmLast.op = "getSampleByWeight"
    /\ Len(facts) >= 2
    /\ Head(wmLast.result) = Len(facts) - 1
    /\ Len(Tail(wmLast.result)) = Len(facts) - 1
    /\ \E i, j \in 1..Len(facts) :
          /\ i < j
          /\ facts[i] # facts[j]
          /\ heap[facts[i]].weight < heap[facts[j]].weight
    /\ wmLast.result[2] # facts[1]

\* ===================================================================
\* Properties of the emotional state
\* ===================================================================
InRange(q) == \A d \in Dims : -Scale <= q[d] /\ q[d] <= Scale

\* C4: after every updateState, decayEmotions, processFact and
\* applyEmotionalDecay call, whatever the impact and the rate, every component
\* of the emotional state of the memory and of the service lies in [-1, 1].
C4_ClampInvariant ==
    emoLast.op # "new" => InRange(emState) /\ InRange(svcState.quadrant)

\* The part of C4 the code keeps: the state of the service is always within
\* [-1, 1], and so is the state of the memory right after updateState.
C4_ServiceAndUpdateClamped ==
    /\ InRange(svcState.quadrant)
    /\ emoLast.op = "updateState" => InRange(emState)

\* ===================================================================
\* Properties of the long-term memory
\* ===================================================================
\* C5: after a completed strengthenPattern call on a known pattern the weight
\* of the pattern in the cache, and the weight written to the patterns
\* table, are at most 1.
C5_WeightBound ==
    (ltmLast.op = "strengthenPattern" /\ ltmLast.outcome = "completed")
    => /\ patterns[ltmLast.id].weight <= Scale
       /\ \A i \in 1..Len(ltmLast.written) : ltmLast.written[i] <= Scale
       /\ ltmLast.id \in DOMAIN dbPatterns => dbPatterns[ltmLast.id].weight <= Scale

\* A strengthenPattern call has completed on a pattern and left it at the
\* weight 1, which it also wrote to the table.
C5_Witness ==
    /\ ltmLast.op = "strengthenPattern"
    /\ ltmLast.outcome = "completed"
    /\ ltmLast.written = <<Scale>>
    /\ patterns[ltmLast.id].weight = Scale

\* ===================================================================
\* Properties of the sleep cycle
\* ===================================================================
\* At most one timer exists, and it is the one the system holds.
OneTimerHeld ==
    /\ Cardinality(timers) <= 1
    /\ timers = IF sleepCycle = NoTimer THEN {} ELSE {sleepCycle}

\* The timer state changes only by a start with no timer held, which
\* schedules the one timer, or by a stop with a timer held, which leaves none
\* (so a start with a timer scheduled and a stop with none change nothing);
\* and a run of the sleep routine starts only while a timer is held.
TimerStep ==
    /\ <<sleepCycle, timers, timersMade>> # <<sleepCycle', timers', timersMade'>>
           => \/ /\ sleepCycle = NoTimer
                 /\ sleepCycle' # NoTimer
                 /\ timers' = {sleepCycle'}
                 /\ timersMade' = timersMade + 1
              \/ /\ sleepCycle # NoTimer
                 /\ sleepCycle' = NoTimer
                 /\ timers' = {}
                 /\ timersMade' = timersMade
    /\ runsStarted' # runsStarted => (sleepCycle # NoTimer /\ timers # {})

\* C9: for any sequence of startSleepCycle and stopSleepCycle calls at most
\* one interval timer exists; a start with a timer scheduled and a stop with
\* none are no-ops; after stopSleepCycle no timer is pending, and no run of
\* the sleep routine starts until the next startSleepCycle.
C9_StartStopIdempotentLeakFree ==
    [](OneTimerHeld) /\ [][TimerStep]_vars

\* The timer was started, fired, and was stopped while the run it began was
\* still suspended; it was then started a second time.
C9_Witness ==
    /\ timersMade = 2
    /\ sleepCycle = 2
    /\ timers = {2}
    /\ runsStarted = 1
    /\ Len(sleepRuns) = 1

\* C10: at no time are two executions of processSleepCycle in progress.
C10_NonReentrant == Len(sleepRuns) <= 1

\* ===================================================================
\* Properties of the ingestion and the sleep routine together
\* ===================================================================
\* C11: when processTextInput calls and runs of the sleep routine interleave
\* at their awaits, the in-memory emotional state is the state that results
\* from applying the impact of every issued updateState call once, as a
\* clamped addition, in the order the calls were issued.
C11_UpdatesSerialized == emState = emExpected

\* An ingestion and a run of the sleep routine are both suspended at their
\* await of updateState, and the updates issued so far have moved the state.
C11_Witness ==
    /\ Len(ingestions) >= 1
    /\ Len(sleepRuns) >= 1
    /\ emState # ZeroQuadrant

\* C12: the emotional re-weighting of findSimilarPatterns is presentation
\* only: a completed call with an emotionalContext leaves the weight of every
\* cached pattern and every row of the patterns table as it was before.
C12_ReweightingNotPersisted ==
    [][(/\ \E context \in EmotionalContexts : context.given /\ FindSimilarWith(context)
        /\ ltmLast'.outcome = "completed")
       => /\ dbPatterns' = dbPatterns
          /\ \A id \in DOMAIN patterns :
               /\ id \in DOMAIN patterns'
               /\ patterns'[id].weight = patterns[id].weight]_vars

\* C13: a completed consolidate() removes from the cache and from the
\* patterns table exactly the patterns held there with a weight <= 0.2, and
\* leaves every pattern held with a weight > 0.2 present and unchanged.
C13_ConsolidateRemovesLowWeight ==
    [][(ConsolidatePatterns /\ ltmLast'.outcome = "completed")
       => /\ \A id \in DOMAIN CacheAfterInit :
               IF CacheAfterInit[id].weight <= LowWeightCutoff
               THEN id \notin DOMAIN patterns'
               ELSE id \in DOMAIN patterns' /\ patterns'[id] = CacheAfterInit[id]
          /\ \A id \in DOMAIN dbPatterns :
               IF dbPatterns[id].weight <= LowWeightCutoff
               THEN id \notin DOMAIN dbPatterns'
               ELSE id \in DOMAIN dbPatterns' /\ dbPatterns'[id] = dbPatterns[id]]_vars

\* C14: strengthenPattern with an id that the initialized cache does not
\* hold raises no error, writes nothing to the patterns table and leaves the
\* cache as it was.
C14_UnknownIdIsNoOp ==
    [][(/\ ltmCalls' # ltmCalls
        /\ ltmLast'.op = "strengthenPattern"
        /\ initialized
        /\ ltmLast'.id \notin DOMAIN patterns)
       => /\ ltmLast'.outcome = "notFound"
          /\ ltmLast'.written = <<>>
          /\ patterns' = patterns
          /\ dbPatterns' = dbPatterns]_vars

\* strengthenPattern has returned for an id unknown to a cache that was
\* initialized and holds another pattern.
C14_Witness ==
    /\ ltmLast.op = "strengthenPattern"
    /\ ltmLast.outcome = "notFound"
    /\ initialized
    /\ DOMAIN patterns # {}
    /\ ltmLast.id \notin DOMAIN patterns
    /\ DOMAIN dbPatterns = DOMAIN patterns

\* C15: applyEmotionalDecay(rate) leaves every component of the service's
\* state at its value before the call times (1 - rate), and the intensity at
\* the norm of the new components.
C15_DecayScalesByRate ==
    [][\A rate \in DecayRates :
          ApplyEmotionalDecayWith(rate)
          => /\ \A d \in Dims :
                  svcState'.quadrant[d] = Mul(svcState.quadrant[d], Scale - rate)
             /\ svcState'.intensity = CalculateIntensity(svcState'.quadrant)]_vars

\* C16: updateState(impact) sets every component to
\* max(-1, min(1, old + impact)); with the impact {joy: 0.5} on joy alone,
\* joy goes from 0 to 0.5, from 0.5 to 1 and from 1 to 1.
C16_ClampedAddition ==
    [][\A impact \in EmoImpacts :
          UpdateStateWith(impact)
          => /\ \A d \in Dims :
                  emState'[d] = Max(-Scale, Min(Scale, emState[d] + impact[d]))
             /\ impact = JoyImpact
                => /\ emState.joy = 0 => emState'.joy = Scale \div 2
                   /\ emState.joy = Scale \div 2 => emState'.joy = Scale
                   /\ emState.joy = Scale => emState'.joy = Scale]_vars

\* Three updates have been applied from the zero state and the last has left
\* joy at the upper limit with the other components at zero.
C16_Witness ==
    /\ emoLast.op = "updateState"
    /\ emoCalls = 3
    /\ emExpected = [ZeroQuadrant EXCEPT !.joy = Scale]
    /\ emState = emExpected
    /\ emRow # <<>>

\* C17: when the application of the reduced impact of one sampled fact
\* fails, the run of processSleepCycle goes on as after a success: it applies
\* the reduced impact of the next fact of its sample or, with none left,
\* calls consolidate() and completes.
C17_FailureDoesNotAbort ==
    [][\A i \in 1..Len(sleepRuns) :
          StoreRejectsAt(i)
          => ProcessFrom(sleepRuns[i].rest, RemoveAt(sleepRuns, i), wmLast)]_vars

\* C18: addFact, and store through it, given a fact object that lacks a
\* required field is rejected with an error and changes nothing: the buffer,
\* the id index and the metrics are as before the call.
C18_MalformedFactRejected ==
    [][\A f \in MalformedFacts :
          AddFactFrom({f}, NewRefs)
          => /\ wmLast'.op \in {"storeThrew", "addFactThrew"}
             /\ facts' = facts
             /\ factMap' = factMap
             /\ metrics' = metrics]_vars

\* C19: a fact in the working memory is never changed: whatever the
\* operation, every fact object of the buffer that still exists after it has
\* the fields, the weight included, that it had before.
C19_FactsImmutable ==
    [][\A r \in Range(facts) : heap'[r] # NoFact => heap'[r] = heap[r]]_vars

\* C20: clear() leaves the buffer empty and the id index without any entry,
\* and the hits, misses and evictions counters as they were before the call.
C20_ClearKeepsMetrics ==
    [][Clear => /\ facts' = <<>>
                /\ \A id \in FactKeys : factMap'[id] = NoRef
                /\ metrics' = metrics]_vars

\* clear() has emptied a working memory whose three counters had all moved.
C20_Witness ==
    /\ wmLast.op = "clear"
    /\ facts = <<>>
    /\ \A id \in FactKeys : factMap[id] = NoRef
    /\ metrics.hits > 0
    /\ metrics.misses > 0
    /\ metrics.evictions > 0

\* C21: evictByWeight() on a non-empty buffer removes exactly one fact, one
\* of the least weight of the buffer and the earliest of those; the other
\* facts keep their order; on an empty buffer nothing changes.
C21_EvictByWeightRemovesFirstMinimum ==
    [][EvictByWeight
       => IF facts = <<>>
          THEN facts' = facts /\ factMap' = factMap /\ metrics' = metrics
          ELSE \E i \in 1..Len(facts) :
                 /\ facts' = RemoveAt(facts, i)
                 /\ \A j \in 1..Len(facts) : heap[facts[i]].weight <= heap[facts[j]].weight
                 /\ \A j \in 1..(i - 1) : heap[facts[j]].weight > heap[facts[i]].weight]_vars

\* evictByWeight() has taken one fact out of a buffer of three facts and has
\* left a heavier fact in front of a fact of the least weight there is.
C21_Witness ==
    /\ wmLast.op = "evictByWeight"
    /\ metrics.hits = EvictCapacity
    /\ metrics.evictions = 1
    /\ Len(facts) = EvictCapacity - 1
    /\ heap[facts[1]].weight > 0
    /\ heap[facts[Len(facts)]].weight = 0

\* C22: storePattern upserts by id and mirrors the cache only on success:
\* when the store accepts the pattern the cache holds one entry for the id,
\* equal to the stored pattern; when the call fails the error is propagated
\* and the cache is as it was before the call.
C22_StoreMirrorsOnlyOnSuccess ==
    [][\A id \in PatternIds : \A pattern \in PatternInputs :
          StorePatternWith(id, pattern)
          => IF ltmLast'.outcome = "completed"
             THEN /\ id \in DOMAIN patterns'
                  /\ patterns'[id] = pattern
                  /\ dbPatterns'[id] = pattern
             ELSE /\ ltmLast'.outcome = "rejected"
                  /\ patterns' = patterns]_vars

\* C22 as amended.  On success the cache is the cache the call started with,
\* loaded from the patterns table when the call is the first to initialize
\* it, with the entry of the id replaced by the stored pattern, and the table
\* holds the pattern under the id; on a failure the call rejects, the table
\* is untouched and the cache is the cache the call started with (loaded when
\* the load succeeded), without the pattern.
C22_StoreMirrorsOnlyOnSuccessAfterLoad ==
    [][\A id \in PatternIds : \A pattern \in PatternInputs :
          StorePatternWith(id, pattern)
          => IF ltmLast'.outcome = "completed"
             THEN /\ DOMAIN patterns' = (DOMAIN CacheAfterInit) \cup {id}
                  /\ patterns'[id] = pattern
                  /\ \A x \in (DOMAIN patterns') \ {id} : patterns'[x] = CacheAfterInit[x]
                  /\ id \in DOMAIN dbPatterns'
                  /\ dbPatterns'[id] = pattern
                  /\ initialized'
             ELSE /\ ltmLast'.outcome = "rejected"
                  /\ dbPatterns' = dbPatterns
                  /\ patterns' \in {patterns, CacheAfterInit}
                  /\ initialized => patterns' = patterns]_vars

\* The first call on the memory was a storePattern whose upsert failed after
\* the rows of the patterns table had been loaded into the cache.
C22_Witness ==
    /\ ltmLast.op = "storePattern"
    /\ ltmLast.outcome = "rejected"
    /\ ltmCalls = 1
    /\ initialized
    /\ patterns # EmptyMap
    /\ patterns = dbPatterns

\* C23: a failure of the backing store is never swallowed: an updateState or
\* decayEmotions call whose insert of the new state failed, so that the row is
\* not in the emotional_states table, fails towards its caller.
C23_FailedInsertFailsTheCall ==
    [][((UpdateState \/ DecayEmotions)
        /\ emRow' # <<[quadrant |-> emState', intensity |-> CalculateIntensity(emState')]>>)
       => ~emoLast'.ok]_vars

C25_SleepCycleDecays ==
    [][(TimerTick /\ Len(facts) = 1 /\ sleepRuns = <<>> /\ ingestions = <<>>)
       => \A d \in Dims : Abs(emState'[d]) <= Abs(emState[d])]_vars

\* C26: the capacity bound holds when addFact calls overlap: with calls
\* started without waiting for the previous one, the buffer never holds more
\* facts than the capacity (taken here to be 1 or more).
C26_CapacityUnderOverlap == wmCapacity >= 1 => Len(facts) <= wmCapacity

\* C27: pruning never removes a pattern that is no longer weak: every
\* pattern that a consolidate() deletes from the cache has a weight <= 0.2 at
\* the moment it is deleted, whatever strengthenPattern calls ran meanwhile.
C27_PrunedPatternsAreWeak ==
    [][\A i \in 1..Len(ltmPending) :
          ConsolidateResumeAt(i)
          => \A id \in (DOMAIN patterns) \ (DOMAIN patterns') :
                 patterns[id].weight <= LowWeightCutoff]_vars

\* C28: with a database that never fails and no emotional context, whenever
\* no long-term-memory call is in flight every cached pattern has the weight
\* of the row stored under its id.
C28_CacheCoherentAtRest ==
    ltmPending = <<>>
    => \A id \in (DOMAIN patterns) \cap (DOMAIN dbPatterns) :
           patterns[id].weight = dbPatterns[id].weight

\* A clamped addition: every component of q + impact, kept within [-1, 1].
ClampedSum(q, impact) == [d \in Dims |-> SvcClampValue(q[d] + impact[d])]

\* C29: when a processFact call starts while another awaits the store and
\* both complete, the current state is the state before the two with both
\* impacts added and clamped, in one of the two orders.
C29_NoLostUpdate ==
    (/\ Len(svcCalls) = 2
     /\ \A i \in 1..2 : svcCalls[i].outcome = "stored")
    => LET before == svcCalls[1].previous
           first == svcCalls[1].impact
           second == svcCalls[2].impact
       IN svcState.quadrant \in {ClampedSum(ClampedSum(before, first), second),
                                 ClampedSum(ClampedSum(before, second), first)}

\* C30: the patterns are loaded at most once for an instance: a loadPatterns
\* that returns with the rows finds the initialized flag not yet set.
C30_LoadedAtMostOnce ==
    [][\A i \in 1..Len(ltmPending) : LoadReturnsAt(i, TRUE) => ~initialized]_vars

\* C31: the id index and the buffer describe the same facts: retrieve(x)
\* finds a fact exactly when some buffered fact has id x.
C31_IndexMatchesBuffer ==
    \A x \in FactIds :
        (factMap[x] # NoRef) <=> (\E i \in 1..Len(facts) : heap[facts[i]].id = x)

\* C32: a completed findSimilarPatterns returns exactly the stored patterns
\* whose facts share an id with the similar facts found; none when no similar
\* fact is found.
C32_ReturnsPatternsSharingAFact ==
    [][\A similarFacts \in SUBSET FactIds :
          (FindSimilarTo(similarFacts) /\ ltmLast'.outcome = "completed")
          => ltmReturned' = {x \in DOMAIN dbPatterns :
                               dbPatterns[x].facts \cap similarFacts # {}}]_vars

\* C33: a processFact whose similarity search returns two facts or more
\* updates one active pattern that holds an id of the supplied facts (same
\* id, fact ids the union of the old and the supplied ones, weight the old
\* weight + 0.1, signature the plain average of the supplied impacts) and
\* creates none, or, when no active pattern holds such an id, creates exactly
\* one pattern; with fewer than two similar facts the active patterns stay
\* as they are.
C33_MergeOrCreate ==
    [][\A fact \in FactIds : \A similarFacts \in SimilarLists : \A crossFound \in BOOLEAN :
          ProcessPatternFact(fact, similarFacts, TRUE, crossFound)
          => LET supplied == <<fact>> \o similarFacts
                 holding == {x \in DOMAIN activePatterns :
                                Range(activePatterns[x].facts) \cap Range(supplied) # {}}
             IN IF Len(similarFacts) < 2
                THEN activePatterns' = activePatterns
                ELSE IF holding # {}
                THEN /\ DOMAIN activePatterns' = DOMAIN activePatterns
                     /\ \E x \in holding :
                          /\ \A y \in (DOMAIN activePatterns) \ {x} :
                                 activePatterns'[y] = activePatterns[y]
                          /\ Range(activePatterns'[x].facts)
                                 = Range(activePatterns[x].facts) \cup Range(supplied)
                          /\ activePatterns'[x].weight
                                 = activePatterns[x].weight + Scale \div 10
                          /\ \A d \in Dims :
                                 activePatterns'[x].emotionalSignature[d]
                                     = LET sum == SumComponent(supplied, d)
                                       IN Sign(sum) * (Abs(sum) \div Len(supplied))
                ELSE /\ Cardinality(DOMAIN activePatterns')
                            = Cardinality(DOMAIN activePatterns) + 1
                     /\ \A y \in DOMAIN activePatterns :
                            /\ y \in DOMAIN activePatterns'
                            /\ activePatterns'[y] = activePatterns[y]]_vars

\* Two patterns are active, one created from fact 1 alone and since updated
\* with facts 1 and 2.
C33_Witness ==
    /\ patLast.op = "processFact"
    /\ patLast.outcome = "completed"
    /\ Cardinality(DOMAIN activePatterns) > Cardinality({patLast})
    /\ \E x \in DOMAIN activePatterns : \E first \in FactIds :
          /\ Range(activePatterns[x].facts) = FactIds
          /\ activePatterns[x].weight
                = CalculatePatternWeight(<<first, first, first>>) + WeightIncrement
          /\ patLast.patterns = <<activePatterns[x]>>

\* The cache and the table once consolidateMemory has gone through the first
\* n facts of given.
ConsolidatedThrough(given, search, n) ==
    ConsolidateFacts([cache |-> CacheAfterInit, db |-> dbPatterns],
                     SubSeq(given, 1, n), search)

\* What one fact does between the cache and table before and those after,
\* when findSimilarPatterns returns the patterns of the ids returned.
OneOutcome(before, after, fact, returned) ==
    IF returned # {}
    THEN /\ DOMAIN after.db = DOMAIN before.db
         /\ \A x \in returned :
                /\ after.db[x]
                      = StrengthenOp(before.db[x], fact.weight, NoContext, now)
                /\ x \in DOMAIN after.cache
                /\ after.cache[x] = after.db[x]
         /\ \A x \in (DOMAIN before.db) \ returned : after.db[x] = before.db[x]
    ELSE IF fact.weight > Scale \div 2
    THEN /\ \E x \in (DOMAIN after.db) \ (DOMAIN before.db) :
                /\ DOMAIN after.db = DOMAIN before.db \cup {x}
                /\ after.db[x] = [facts |-> {fact.id}, weight |-> fact.weight,
                                  emotionalSignature |-> fact.emotionalImpact,
                                  lastAccessed |-> now]
                /\ x \in DOMAIN after.cache
                /\ after.cache[x] = after.db[x]
         /\ \A x \in DOMAIN before.db : after.db[x] = before.db[x]
    ELSE after = before

\* C34: a consolidateMemory(facts) call that completes has, for each fact in
\* order, done exactly one of three things: strengthened every pattern that
\* findSimilarPatterns returned for the fact by the weight of the fact and
\* created none; with no pattern returned and a weight strictly above 0.5,
\* created exactly one pattern, of the id of the fact alone, its weight and
\* its emotional impact; or, otherwise, changed nothing.
C34_OneOutcomePerFact ==
    [][(/\ ltmCalls' = ltmCalls + 1
        /\ ltmLast'.op = "consolidateMemory"
        /\ ltmLast'.outcome = "completed")
       => LET given == ltmLast'.given
              search == ltmLast'.similar
          IN /\ [cache |-> patterns', db |-> dbPatterns']
                   = ConsolidatedThrough(given, search, Len(given))
             /\ \A n \in 1..Len(given) :
                   OneOutcome(ConsolidatedThrough(given, search, n - 1),
                              ConsolidatedThrough(given, search, n),
                              given[n],
                              FindPatternsWithFacts(
                                  ConsolidatedThrough(given, search, n - 1).db,
                                  search[given[n].id]))]_vars

\* The table holds two patterns, each of one fact and so created by
\* consolidateMemory for that fact, and a later consolidateMemory of facts too
\* light for a pattern of their own has completed, its searches returning
\* patterns: it has strengthened them, in the table and in the cache.
C34_Witness ==
    /\ ltmLast.op = "consolidateMemory"
    /\ ltmLast.outcome = "completed"
    /\ ltmLast.given # <<>>
    /\ \A n \in 1..Len(ltmLast.given) :
          /\ ltmLast.given[n].weight <= CreationThreshold
          /\ FindPatternsWithFacts(dbPatterns, ltmLast.similar[ltmLast.given[n].id]) # {}
    /\ \E x, y \in DOMAIN dbPatterns : x # y
    /\ \A x \in DOMAIN dbPatterns :
          /\ \E f \in FactIds : dbPatterns[x].facts = {f}
          /\ x \in DOMAIN patterns
          /\ patterns[x] = dbPatterns[x]
          /\ dbPatterns[x].lastAccessed = now

\* C35: after processFact on facts whose weights lie in [0, 1] and whose
\* emotional impacts lie in [-1, 1] on each dimension, the weight of every
\* active pattern of the PatternService lies in [0, 1].
C35_PatternWeightsInUnitRange ==
    \A x \in DOMAIN activePatterns :
        /\ activePatterns[x].weight >= 0
        /\ activePatterns[x].weight <= Scale

\* C36: the facts of every active pattern of the PatternService are pairwise
\* distinct ids, whatever the fact processed and whatever the list of
\* similar facts, a list holding the processed fact included.
C36_PatternFactsDistinct ==
    \A x \in DOMAIN activePatterns :
        \A i, j \in 1..Len(activePatterns[x].facts) :
            activePatterns[x].facts[i] = activePatterns[x].facts[j] => i = j

\* C37: a strengthenPattern call that rejects, its update refused by the
\* database, leaves the cache as it was: the cached weight, emotional
\* signature and lastAccessed of the pattern are those from before the call
\* (those just loaded, when the call is the one that loads the cache).
C37_FailedStrengthenLeavesCache ==
    [][(/\ ltmCalls' = ltmCalls + 1
        /\ ltmLast'.op = "strengthenPattern"
        /\ ltmLast'.outcome = "rejected")
       => (patterns' = patterns \/ patterns' = CacheAfterInit)]_vars

\* C38: the fact ids recorded in the patterns refer to stored facts: every id
\* in the facts of a pattern of the table is the id under which a fact is
\* held in the facts table, so that retrieve(id) returns the fact, not null.
C38_PatternFactsAreStored ==
    \A x \in DOMAIN dbPatterns : \A id \in dbPatterns[x].facts :
        RetrieveStored(dbFacts, id) # <<>>

\* C39: the analysis a processFact returns reports the transition: its
\* previousState is the state the service had before the call, its newState
\* the state it has after, and the two differ whenever the clamped impact
\* changes a component.
C39_AnalysisReportsTransition ==
    [][(/\ emoCalls' = emoCalls + 1
        /\ emoLast'.op = "processFact"
        /\ emoLast'.ok)
       => /\ emoLast'.previousState = svcState
          /\ emoLast'.newState = svcState'
          /\ (svcState'.quadrant # svcState.quadrant
                 => emoLast'.previousState # emoLast'.newState)]_vars

\* The facts the working memory of the InsightService holds after a step and
\* did not hold before it.
StoredByStep == {insightMemory'[i] : i \in (Len(insightMemory) + 1)..Len(insightMemory')}

\* C40: duplicate insights are not processed: a synthesizeInsights call that
\* completes returns only insights whose normalized content had not been
\* processed, and an insight it leaves out as a duplicate has added nothing
\* to the working memory of the service, to the long-term store or to the
\* active patterns: what the call added to each is what it returned.
C40_DuplicatesAddNothing ==
    [][(/\ insLast'.op = "synthesizeInsights"
        /\ insLast'.outcome = "completed"
        /\ insightMemory' # insightMemory)
       => /\ \A f \in StoredByStep :
                /\ f.id \in Range(insLast'.insights)
                /\ Normalized(f.content) \notin processedInsights
                /\ \A g \in StoredByStep :
                       Normalized(g.content) = Normalized(f.content) => g.id = f.id
          /\ Cardinality((DOMAIN dbFacts') \ (DOMAIN dbFacts))
                = Len(insLast'.insights)
          /\ \A x \in DOMAIN activePatterns' :
                \A id \in Range(activePatterns'[x].facts) \cap InsightIds :
                    \/ id \in Range(insLast'.insights)
                    \/ \E i \in 1..Len(insightMemory) : insightMemory[i].id = id]_vars

====
